---- MODULE Spec2Model ----
(***************************************************************************)
(* Model of the AliExpress affiliate search pipeline: the intent parser,   *)
(* the affiliate API client, the Redis-backed result cache, the search     *)
(* service (processMessage) and the chat plugin wrapper.                   *)
(*                                                                         *)
(* Strings are TLA+ strings; prices are integers in hundredths (cents);    *)
(* confidence is an integer in tenths; time is an integer in seconds.      *)
(***************************************************************************)
EXTENDS Integers, Sequences, FiniteSets, TLC

\* The value of an absent optional field (JavaScript undefined / null).
Undefined == "undefined"

(***************************************************************************)
(* String helpers (JavaScript String.prototype functions)                  *)
(***************************************************************************)
CharAt(s, i) == SubSeq(s, i, i)

IsSpace(c) == c \in {" ", "\t", "\n"}

IsDigit(c) == c \in {"0", "1", "2", "3", "4", "5", "6", "7", "8", "9"}

UpperAlpha == "ABCDEFGHIJKLMNOPQRSTUVWXYZ"

LowerAlpha == "abcdefghijklmnopqrstuvwxyz"

LowerChar(c) ==
  IF \E i \in 1..Len(UpperAlpha) : CharAt(UpperAlpha, i) = c
    THEN CharAt(LowerAlpha, CHOOSE i \in 1..Len(UpperAlpha) : CharAt(UpperAlpha, i) = c)
    ELSE c

RECURSIVE toLowerCase(_)
toLowerCase(s) ==
  IF Len(s) = 0 THEN "" ELSE LowerChar(CharAt(s, 1)) \o toLowerCase(SubSeq(s, 2, Len(s)))

RECURSIVE trimStart(_)
trimStart(s) ==
  IF Len(s) > 0 /\ IsSpace(CharAt(s, 1)) THEN trimStart(SubSeq(s, 2, Len(s))) ELSE s

RECURSIVE trimEnd(_)
trimEnd(s) ==
  IF Len(s) > 0 /\ IsSpace(CharAt(s, Len(s))) THEN trimEnd(SubSeq(s, 1, Len(s) - 1)) ELSE s

trim(s) == trimEnd(trimStart(s))

\* s.includes(k)
includes(s, k) ==
  \/ Len(k) = 0
  \/ \E i \in 1..(Len(s) - Len(k) + 1) : SubSeq(s, i, i + Len(k) - 1) = k

\* s.split(/\s+/): acc holds the finished tokens, cur the token being read.
RECURSIVE splitFrom(_, _, _, _)
splitFrom(s, i, cur, acc) ==
  IF i > Len(s) THEN Append(acc, cur)
  ELSE IF IsSpace(CharAt(s, i))
    THEN IF i > 1 /\ IsSpace(CharAt(s, i - 1))
           THEN splitFrom(s, i + 1, cur, acc)
           ELSE splitFrom(s, i + 1, "", Append(acc, cur))
    ELSE splitFrom(s, i + 1, cur \o CharAt(s, i), acc)

splitWhitespace(s) == splitFrom(s, 1, "", <<>>)

\* words.join(' ')
RECURSIVE join(_)
join(words) ==
  IF Len(words) = 0 THEN ""
  ELSE IF Len(words) = 1 THEN words[1]
  ELSE words[1] \o " " \o join(Tail(words))

DigitValue(c) == CHOOSE d \in 0..9 : CharAt("0123456789", d + 1) = c

RECURSIVE digitsToInt(_)
digitsToInt(s) ==
  IF Len(s) = 0 THEN 0
  ELSE 10 * digitsToInt(SubSeq(s, 1, Len(s) - 1)) + DigitValue(CharAt(s, Len(s)))

\* The end of the run of digits that starts at position i (i - 1 when there is none).
RECURSIVE digitsEnd(_, _)
digitsEnd(s, i) ==
  IF i <= Len(s) /\ IsDigit(CharAt(s, i)) THEN digitsEnd(s, i + 1) ELSE i - 1

RECURSIVE spacesEnd(_, _)
spacesEnd(s, i) ==
  IF i <= Len(s) /\ IsSpace(CharAt(s, i)) THEN spacesEnd(s, i + 1) ELSE i - 1

SafeSub(s, a, b) == IF a >= 1 /\ b <= Len(s) /\ a <= b THEN SubSeq(s, a, b) ELSE ""

(***************************************************************************)
(* Intent parser (ProductIntentParser)                                     *)
(***************************************************************************)
\* An optional number: {} when absent, {n} when present.
NoNumber == {}

NoPriceRange == [present |-> FALSE, min |-> NoNumber, max |-> NoNumber]

stopWords ==
  {"find", "search", "looking", "for", "want", "need", "buy", "get", "show", "me",
   "under", "below", "above", "around", "about"}

categoryKeywords ==
  << <<"electronics", {"phone", "laptop", "computer", "tablet", "headphones", "earbuds",
                       "speaker", "camera", "tv", "monitor"}>>,
     <<"clothing", {"shirt", "dress", "pants", "shoes", "jacket", "hoodie", "jeans",
                    "sneakers", "boots"}>>,
     <<"home", {"furniture", "decor", "kitchen", "bedroom", "living room", "bathroom",
                "garden", "tools"}>>,
     <<"beauty", {"makeup", "skincare", "perfume", "cosmetics", "hair", "nail", "beauty"}>>,
     <<"sports", {"fitness", "gym", "running", "yoga", "sports", "outdoor", "camping",
                  "hiking"}>>,
     <<"toys", {"toy", "game", "puzzle", "doll", "action figure", "board game", "kids",
                "children"}>>,
     <<"automotive", {"car", "auto", "vehicle", "motorcycle", "bike", "parts",
                      "accessories"}>> >>

searchIndicators == {"find", "search", "looking for", "want", "need", "buy", "show me"}

\* /^\$?\d+/.test(word)
startsWithPrice(word) ==
  \/ Len(word) >= 1 /\ IsDigit(CharAt(word, 1))
  \/ Len(word) >= 2 /\ CharAt(word, 1) = "$" /\ IsDigit(CharAt(word, 2))

\* The end of \d+(?:\.\d{2})? when its digits start at position i.
decimalsEnd(s, e) ==
  IF e + 3 <= Len(s) /\ CharAt(s, e + 1) = "." /\ IsDigit(CharAt(s, e + 2))
       /\ IsDigit(CharAt(s, e + 3))
    THEN e + 3 ELSE e

numberEnd(s, i) == decimalsEnd(s, digitsEnd(s, i))

\* parseFloat of a string matched by \d+(?:\.\d{2})?, in hundredths.
parseFloat(t) ==
  IF Len(t) >= 4 /\ CharAt(t, Len(t) - 2) = "."
    THEN 100 * digitsToInt(SubSeq(t, 1, Len(t) - 3)) + digitsToInt(SubSeq(t, Len(t) - 1, Len(t)))
    ELSE 100 * digitsToInt(t)

\* message.match(priceRegex) with
\* priceRegex = /\$?(\d+(?:\.\d{2})?)\s*(?:to|-)?\s*\$?(\d+(?:\.\d{2})?)?/i :
\* the leftmost match; every part after group 1 is optional and greedy. The
\* operators below follow the pattern from left to right.
\* \$?(\d+(?:\.\d{2})?)? from d2: the second group, undefined when it matches nothing
priceGroup2(s, d2, e2) == IF e2 >= d2 THEN SubSeq(s, d2, e2) ELSE Undefined

\* \s*\$? from p2, then the second group
priceSecond(s, p3) ==
  IF SafeSub(s, p3, p3) = "$"
    THEN priceGroup2(s, p3 + 1, numberEnd(s, p3 + 1))
    ELSE priceGroup2(s, p3, numberEnd(s, p3))

\* (?:to|-)? from p1, then the rest
priceSeparator(s, p1) ==
  IF SafeSub(s, p1, p1 + 1) = "to" THEN priceSecond(s, spacesEnd(s, p1 + 2) + 1)
  ELSE IF SafeSub(s, p1, p1) = "-" THEN priceSecond(s, spacesEnd(s, p1 + 1) + 1)
  ELSE priceSecond(s, spacesEnd(s, p1) + 1)

\* The first group is s[d1..e1]; \s* follows it.
priceGroups(s, d1, e1) ==
  [matched |-> TRUE, g1 |-> SubSeq(s, d1, e1),
   g2 |-> priceSeparator(s, spacesEnd(s, e1 + 1) + 1)]

\* The match that starts at position i0
priceMatchAt(s, i0) ==
  IF CharAt(s, i0) = "$" THEN priceGroups(s, i0 + 1, numberEnd(s, i0 + 1))
  ELSE priceGroups(s, i0, numberEnd(s, i0))

priceStarts(s) == {i \in 1..Len(s) : startsWithPrice(SubSeq(s, i, Len(s)))}

priceMatch(s) ==
  IF priceStarts(s) = {} THEN [matched |-> FALSE, g1 |-> "", g2 |-> Undefined]
  ELSE priceMatchAt(s, CHOOSE i \in priceStarts(s) : \A j \in priceStarts(s) : i <= j)

Min2(a, b) == IF a <= b THEN a ELSE b

Max2(a, b) == IF a >= b THEN a ELSE b

\* The branches of extractPriceRange once the prices are parsed. if (price2):
\* undefined and 0 are both falsy.
priceRangeOf(message, price1, hasPrice2, price2) ==
  IF hasPrice2 /\ price2 # 0
    THEN [present |-> TRUE, min |-> {Min2(price1, price2)}, max |-> {Max2(price1, price2)}]
  ELSE IF includes(message, "under") \/ includes(message, "below")
            \/ includes(message, "less than")
    THEN [present |-> TRUE, min |-> NoNumber, max |-> {price1}]
  ELSE IF includes(message, "above") \/ includes(message, "over")
            \/ includes(message, "more than")
    THEN [present |-> TRUE, min |-> {price1}, max |-> NoNumber]
  ELSE [present |-> TRUE, min |-> NoNumber, max |-> {price1}]

\* extractPriceRange after message.match(priceRegex)
priceRangeOfMatch(message, priceMatchResult) ==
  IF ~priceMatchResult.matched THEN NoPriceRange
  ELSE IF priceMatchResult.g2 # Undefined
    THEN priceRangeOf(message, parseFloat(priceMatchResult.g1), TRUE,
                      parseFloat(priceMatchResult.g2))
  ELSE priceRangeOf(message, parseFloat(priceMatchResult.g1), FALSE, 0)

extractPriceRange(message) == priceRangeOfMatch(message, priceMatch(message))

detectCategory(message) ==
  LET hits == {i \in 1..Len(categoryKeywords) :
                 \E keyword \in categoryKeywords[i][2] : includes(message, keyword)}
  IN IF hits = {} THEN Undefined
     ELSE categoryKeywords[CHOOSE i \in hits : \A j \in hits : i <= j][1]

Clamp(x, lo, hi) == Max2(lo, Min2(hi, x))

\* The confidence without the deduction for short or vague messages
calculateConfidenceNoPenalty(message, keywords, priceRange, category) ==
  Clamp(5
        + (IF \E indicator \in searchIndicators : includes(message, indicator)
             THEN 2 ELSE 0)
        + (IF Len(keywords) >= 2 THEN 1 ELSE 0)
        + (IF priceRange.present THEN 1 ELSE 0)
        + (IF category # Undefined THEN 1 ELSE 0),
        0, 10)

\* In tenths. The floating-point sums of the code differ from these exact sums by
\* less than 1e-15 and never across the 0.6 threshold of isProductSearchIntent.
calculateConfidence(message, keywords, priceRange, category) ==
  Clamp(5
        + (IF \E indicator \in searchIndicators : includes(message, indicator)
             THEN 2 ELSE 0)
        + (IF Len(keywords) >= 2 THEN 1 ELSE 0)
        + (IF priceRange.present THEN 1 ELSE 0)
        + (IF category # Undefined THEN 1 ELSE 0)
        - (IF Len(message) < 10 \/ Len(keywords) = 0 THEN 2 ELSE 0),
        0, 10)

\* The keywords of parseIntent: the words kept from the normalized message
intentKeywords(normalizedMessage) ==
  LET Keep(word) == Len(word) > 2 /\ word \notin stopWords /\ ~startsWithPrice(word)
  IN SelectSeq(splitWhitespace(normalizedMessage), Keep)

\* The object parseIntent returns
intentRecord(normalizedMessage, words, priceRange, category) ==
  [keywords |-> words, category |-> category, priceRange |-> priceRange,
   confidence |-> calculateConfidence(normalizedMessage, words, priceRange, category)]

\* parseIntent after message.toLowerCase().trim()
parseNormalized(normalizedMessage) ==
  intentRecord(normalizedMessage, intentKeywords(normalizedMessage),
               extractPriceRange(normalizedMessage), detectCategory(normalizedMessage))

parseIntent(message) == parseNormalized(trim(toLowerCase(message)))

\* The intent test with a confidence of 0.6 accepted
isProductSearchIntentInclusive(message) == parseIntent(message).confidence >= 6

isProductSearchIntent(message) == parseIntent(message).confidence > 6

\* The four checks of generateSuggestions without the early return
suggestionsForIndependent(intent) ==
  (IF Len(intent.keywords) = 0
     THEN <<"Could you be more specific about what product you're looking for?">>
   ELSE <<>>)
  \o (IF ~intent.priceRange.present THEN <<"What's your budget range for this item?">>
      ELSE <<>>)
  \o (IF intent.category = Undefined
        THEN <<"What category of product are you interested in?">> ELSE <<>>)
  \o (IF Len(intent.keywords) = 1
        THEN <<"Are you looking for " \o intent.keywords[1]
                \o " in any specific style or brand?">>
      ELSE <<>>)

\* generateSuggestions after parseIntent
suggestionsFor(intent) ==
  IF Len(intent.keywords) = 0
    THEN <<"Could you be more specific about what product you're looking for?">>
  ELSE (IF ~intent.priceRange.present THEN <<"What's your budget range for this item?">>
        ELSE <<>>)
       \o (IF intent.category = Undefined
             THEN <<"What category of product are you interested in?">> ELSE <<>>)
       \o (IF Len(intent.keywords) = 1
             THEN <<"Are you looking for " \o intent.keywords[1]
                     \o " in any specific style or brand?">>
           ELSE <<>>)

generateSuggestions(message) == suggestionsFor(parseIntent(message))

(***************************************************************************)
(* Configuration                                                           *)
(***************************************************************************)
\* The environments of the process: both credential variables unset, or both set.
EnvUnset == [ALIEXPRESS_APP_SECRET |-> Undefined, ALIEXPRESS_PID |-> Undefined]

EnvSet == [ALIEXPRESS_APP_SECRET |-> "real-secret", ALIEXPRESS_PID |-> "real-pid"]

\* process.env.X || fallback
OrDefault(v, fallback) == IF v = Undefined \/ v = "" THEN fallback ELSE v

\* src/config/aliexpress.ts, the configuration module app.ts imports.
aliexpressConfig(env) ==
  [appSecret |-> OrDefault(env.ALIEXPRESS_APP_SECRET, ""),
   pid |-> OrDefault(env.ALIEXPRESS_PID, ""),
   requestsPerSecond |-> 10]

\* The configuration module with demo defaults.
aliexpressConfigDemo(env) ==
  [appSecret |-> OrDefault(env.ALIEXPRESS_APP_SECRET, "demo-secret"),
   pid |-> OrDefault(env.ALIEXPRESS_PID, "demo-pid"),
   requestsPerSecond |-> 10]

\* Configurations handed to the AliExpressService constructor: the two exported
\* ones under each environment, and hand-built ones (a placeholder in only one
\* of the two credentials, small per-second limits).
MaxLimit == 1

ExportedSetups ==
  {[source |-> "config", env |-> e, config |-> aliexpressConfig(e)] : e \in {EnvUnset, EnvSet}}
  \cup {[source |-> "demo-config", env |-> EnvUnset, config |-> aliexpressConfigDemo(EnvUnset)]}

CustomSetups ==
  {[source |-> "custom", env |-> EnvSet,
    config |-> [appSecret |-> "real-secret", pid |-> "demo-pid", requestsPerSecond |-> 10]],
   [source |-> "custom", env |-> EnvSet,
    config |-> [appSecret |-> "demo-secret", pid |-> "real-pid", requestsPerSecond |-> 10]]}
  \cup {[source |-> "custom", env |-> EnvSet,
         config |-> [appSecret |-> "real-secret", pid |-> "real-pid",
                     requestsPerSecond |-> n]] : n \in 1..MaxLimit}

Setups == ExportedSetups \cup CustomSetups

\* The credential test with || in place of &&
hasRealCredentialsEither(cfg) == cfg.appSecret # "demo-secret" \/ cfg.pid # "demo-pid"

hasRealCredentials(cfg) == cfg.appSecret # "demo-secret" /\ cfg.pid # "demo-pid"

(***************************************************************************)
(* Demo data                                                               *)
(***************************************************************************)
demoProducts ==
  << [id |-> "demo-1", title |-> "Wireless Bluetooth Earbuds with Charging Case",
      affiliateUrl |-> "https://s.click.aliexpress.com/demo-affiliate-link-1",
      originalUrl |-> "https://www.aliexpress.com/item/demo-product-1.html",
      seller |-> [name |-> "TechStore Official", rating |-> 450, orders |-> 1250],
      relevanceScore |-> 95],
     [id |-> "demo-2", title |-> "True Wireless Earphones with Noise Cancellation",
      affiliateUrl |-> "https://s.click.aliexpress.com/demo-affiliate-link-2",
      originalUrl |-> "https://www.aliexpress.com/item/demo-product-2.html",
      seller |-> [name |-> "AudioTech Store", rating |-> 430, orders |-> 890],
      relevanceScore |-> 88],
     [id |-> "demo-3", title |-> "Mini Bluetooth 5.0 Earbuds Sports Headphones",
      affiliateUrl |-> "https://s.click.aliexpress.com/demo-affiliate-link-3",
      originalUrl |-> "https://www.aliexpress.com/item/demo-product-3.html",
      seller |-> [name |-> "SportsTech", rating |-> 410, orders |-> 567],
      relevanceScore |-> 82] >>

\* The values Math.floor(Math.random() * 200) + 50 is drawn from here.
DemoSearchTimes == {50, 249}

\* generateDemoSearchResponse(query), with the random search time as a parameter.
generateDemoSearchResponse(query, searchTime) ==
  LET q == toLowerCase(query)
      Matches(product) ==
        \/ includes(toLowerCase(product.title), q)
        \/ includes(q, "earbuds")
        \/ includes(q, "wireless")
        \/ includes(q, "bluetooth")
      filteredProducts == SelectSeq(demoProducts, Matches)
  IN [products |-> filteredProducts, totalResults |-> Len(filteredProducts),
      currentPage |-> 1, totalPages |-> 1, searchTime |-> searchTime, cached |-> FALSE]

(***************************************************************************)
(* Affiliate API client (AliExpressClient)                                 *)
(***************************************************************************)
U1 == "https://www.aliexpress.com/item/1.html"

U2 == "https://www.aliexpress.com/item/2.html"

ProductUrls == {U1, U2}

\* An entry of the product list of a product.query response. Numeric fields are
\* optional: {} when the entry has none.
RawA ==
  [product_id |-> "1", product_title |-> "Phone case", product_detail_url |-> U1,
   evaluate_score |-> {480}, volume |-> {1500}, commission_rate |-> "5%"]

\* parseFloat(x || '0') / parseInt(x || '0') of an optional numeric field
NumberOrZero(field) == IF field = {} THEN 0 ELSE CHOOSE n \in field : TRUE

parseProducts(products) ==
  [i \in 1..Len(products) |->
     [productId |-> products[i].product_id,
      productTitle |-> products[i].product_title,
      productUrl |-> products[i].product_detail_url,
      evaluateScore |-> NumberOrZero(products[i].evaluate_score),
      volume |-> NumberOrZero(products[i].volume),
      commission |-> products[i].commission_rate # Undefined]]

\* What the POST of a product.query can come to: a transport failure, timeout or
\* non-2xx status ("error"), or a response with or without the product list.
SearchOutcomes ==
  {[kind |-> "error", hasProducts |-> FALSE, products |-> <<>>],
   [kind |-> "ok", hasProducts |-> FALSE, products |-> <<>>]}
  \cup {[kind |-> "ok", hasProducts |-> TRUE, products |-> l] :
          l \in {<<>>, <<RawA>>}}

\* AliExpressClient.searchProducts: throws on "error", else the parsed list.
searchProducts(request, outcome) ==
  IF outcome.kind = "error" THEN [threw |-> TRUE, products |-> <<>>]
  ELSE [threw |-> FALSE,
        products |-> IF outcome.hasProducts THEN parseProducts(outcome.products) ELSE <<>>]

PromotionLink(url) == "https://s.click.aliexpress.com/e/" \o url

passThrough(url, pid) ==
  [originalUrl |-> url, affiliateUrl |-> url, shortUrl |-> Undefined, trackingId |-> pid]

\* linkMap.set(link.source_value, ...) for each link in turn: the last entry of a
\* source value wins.
parseAffiliateLinks(links, originalUrls, pid) ==
  LET Hits(url) == {j \in 1..Len(links) : links[j].source_value = url}
      Last(url) == links[CHOOSE j \in Hits(url) : \A k \in Hits(url) : k <= j]
  IN [i \in 1..Len(originalUrls) |->
        IF Hits(originalUrls[i]) # {}
          THEN [originalUrl |-> Last(originalUrls[i]).source_value,
                affiliateUrl |-> Last(originalUrls[i]).promotion_link,
                shortUrl |-> Last(originalUrls[i]).short_promotion_link,
                trackingId |-> pid]
          ELSE passThrough(originalUrls[i], pid)]

\* The try block of generateAffiliateLinks. outcome.kind is "error" (the POST
\* failed), "nolist" (no promotion_links in the response), "notarray"
\* (promotion_links is present but is no array, so links.forEach throws) or "list".
generateAffiliateLinksTry(productUrls, outcome, pid) ==
  IF outcome.kind \in {"error", "notarray"} THEN [threw |-> TRUE, links |-> <<>>]
  ELSE IF outcome.kind = "list"
    THEN [threw |-> FALSE, links |-> parseAffiliateLinks(outcome.links, productUrls, pid)]
  ELSE [threw |-> FALSE,
        links |-> [i \in 1..Len(productUrls) |-> passThrough(productUrls[i], pid)]]

\* generateAffiliateLinks without its catch block: a failure reaches the caller.
generateAffiliateLinksUncaught(productUrls, outcome, pid) ==
  generateAffiliateLinksTry(productUrls, outcome, pid)

\* AliExpressClient.generateAffiliateLinks: the try block, and the catch that
\* returns the original URLs.
generateAffiliateLinks(productUrls, outcome, pid) ==
  LET attempt == generateAffiliateLinksTry(productUrls, outcome, pid)
  IN IF attempt.threw
       THEN [threw |-> FALSE,
             links |-> [i \in 1..Len(productUrls) |-> passThrough(productUrls[i], pid)]]
       ELSE attempt

LinkFailures ==
  {[kind |-> k, links |-> <<>>] : k \in {"error", "nolist", "notarray"}}

\* A sequence listing the elements of a set of URLs, in a fixed order.
RECURSIVE SetToSeq(_)
SetToSeq(S) ==
  IF S = {} THEN <<>>
  ELSE LET x == IF U1 \in S THEN U1 ELSE CHOOSE y \in S : TRUE
       IN <<x>> \o SetToSeq(S \ {x})

\* The link.generate responses the service model draws from: a failure, or a
\* list answering a subset of the requested URLs.
LinkOutcomesFor(productUrls) ==
  LinkFailures
  \cup {[kind |-> "list",
         links |-> [i \in 1..Cardinality(S) |->
                      [source_value |-> SetToSeq(S)[i],
                       promotion_link |-> PromotionLink(SetToSeq(S)[i]),
                       short_promotion_link |-> Undefined]]] :
          S \in SUBSET {productUrls[i] : i \in 1..Len(productUrls)}}

(***************************************************************************)
(* Redis, as the cache uses it. A key space is a set of entries                *)
(* [key, value, exp]; exp is the second the key expires at.                    *)
(***************************************************************************)
NoExpiry == -1

Live(ks, now) == {e \in ks : e.exp = NoExpiry \/ e.exp > now}

\* GET: {} for a missing key (null), {value} otherwise
redisGet(ks, key, now) == {e.value : e \in {x \in Live(ks, now) : x.key = key}}

redisSetex(ks, key, ttl, value, now) ==
  {e \in Live(ks, now) : e.key # key} \cup {[key |-> key, value |-> value, exp |-> now + ttl]}

\* INCR: a missing key is created as 1, without an expiry
redisIncr(ks, key, now) ==
  IF \E e \in Live(ks, now) : e.key = key
    THEN {IF e.key = key THEN [e EXCEPT !.value = @ + 1] ELSE e : e \in Live(ks, now)}
    ELSE Live(ks, now) \cup {[key |-> key, value |-> 1, exp |-> NoExpiry]}

\* TTL: -2 for a missing key, -1 for a key without expiry
redisTtl(ks, key, now) ==
  IF ~\E e \in Live(ks, now) : e.key = key THEN -2
  ELSE LET e == CHOOSE x \in Live(ks, now) : x.key = key
       IN IF e.exp = NoExpiry THEN -1 ELSE e.exp - now

redisDel(ks, key, now) == {e \in Live(ks, now) : e.key # key}

\* ZINCRBY key 1 member, on a sorted set held as a set of [member, score]
redisZincrby(zs, member) ==
  IF \E e \in zs : e.member = member
    THEN {IF e.member = member THEN [e EXCEPT !.score = @ + 1] ELSE e : e \in zs}
    ELSE zs \cup {[member |-> member, score |-> 1]}

\* The rank of an entry, lowest score first; ties by member as Redis orders them
\* (lexicographically), which this model leaves open.
ZRankings(zs) ==
  {r \in [zs -> 0..(Cardinality(zs) - 1)] :
     /\ \A a, b \in zs : a # b => r[a] # r[b]
     /\ \A a, b \in zs : a.score < b.score => r[a] < r[b]}

(***************************************************************************)
(* Result cache (AliExpressCache)                                          *)
(***************************************************************************)
SEARCH_TTL == 3600

AFFILIATE_TTL == 86400

\* Keep only the top terms of the popularity set (zremrangebyrank key 0 -1001)
PopularKeep == 1000

\* A stand-in for the hex MD5 digest: distinct inputs give distinct digests.
md5(text) == "md5(" \o text \o ")"

RECURSIVE IntToStr(_)
IntToStr(n) ==
  IF n < 0 THEN "-" \o IntToStr(0 - n)
  ELSE IF n < 10 THEN CharAt("0123456789", n + 1)
  ELSE IntToStr(n \div 10) \o CharAt("0123456789", (n % 10) + 1)

\* A JavaScript number held in hundredths, as JSON.stringify prints it
NumToStr(cents) ==
  IF cents % 100 = 0 THEN IntToStr(cents \div 100)
  ELSE IF cents % 10 = 0 THEN IntToStr(cents \div 100) \o "." \o IntToStr((cents % 100) \div 10)
  ELSE IntToStr(cents \div 100) \o "." \o IntToStr((cents % 100) \div 10)
         \o IntToStr(cents % 10)

\* JSON.stringify(filters): keys whose value is undefined are left out
stringifyFilters(filters) ==
  LET parts ==
        (IF filters.categoryId # Undefined
           THEN <<"\"categoryId\":\"" \o filters.categoryId \o "\"">> ELSE <<>>)
        \o (IF filters.minPrice # {}
              THEN <<"\"minPrice\":" \o NumToStr(NumberOrZero(filters.minPrice))>> ELSE <<>>)
        \o (IF filters.maxPrice # {}
              THEN <<"\"maxPrice\":" \o NumToStr(NumberOrZero(filters.maxPrice))>> ELSE <<>>)
        \o <<"\"pageNo\":" \o IntToStr(filters.pageNo)>>
      Commas[i \in 0..Len(parts)] ==
        IF i = 0 THEN "" ELSE IF i = 1 THEN parts[1] ELSE Commas[i - 1] \o "," \o parts[i]
  IN "{" \o Commas[Len(parts)] \o "}"

getSearchKey(keywords, filters) ==
  "aliexpress:search:" \o md5(keywords \o stringifyFilters(filters))

getAffiliateKey(originalUrl) == "aliexpress:affiliate:" \o md5(originalUrl)

getRateLimitKey(service, identifier) == "aliexpress:ratelimit:" \o service \o ":" \o identifier

\* JSON.stringify / JSON.parse of a value made of strings, finite numbers,
\* booleans, arrays and objects
JSONstringify(value) == <<"json", value>>

JSONparse(text) == text[2]

\* The Redis key spaces of the cache: search results, affiliate links and
\* rate-limit counters (sets of entries), and the popular_searches sorted set.
EmptyRedis == [search |-> {}, affiliate |-> {}, ratelimit |-> {}, popular |-> {}]

\* Keys whose expiry has passed are gone.
Expire(R, now) ==
  [search |-> Live(R.search, now), affiliate |-> Live(R.affiliate, now),
   ratelimit |-> Live(R.ratelimit, now), popular |-> R.popular]

The(optional) == CHOOSE v \in optional : TRUE

\* cacheSearchResults storing the response as given, without the cached flag
cacheSearchResultsAsGiven(R, keywords, filters, results, now) ==
  [R EXCEPT !.search =
     redisSetex(@, getSearchKey(keywords, filters), SEARCH_TTL, JSONstringify(results), now)]

\* cacheSearchResults with the TTL of the affiliate links
cacheSearchResultsLinkTtl(R, keywords, filters, results, now) ==
  [R EXCEPT !.search =
     redisSetex(@, getSearchKey(keywords, filters), AFFILIATE_TTL,
                JSONstringify([products |-> results.products,
                               totalResults |-> results.totalResults,
                               currentPage |-> results.currentPage,
                               totalPages |-> results.totalPages,
                               searchTime |-> results.searchTime, cached |-> TRUE,
                               cachedAt |-> now]), now)]

\* cacheSearchResults that keeps an entry already stored (first writer wins)
cacheSearchResultsKeepFirst(R, keywords, filters, results, now) ==
  IF redisGet(R.search, getSearchKey(keywords, filters), now) # {} THEN R
  ELSE [R EXCEPT !.search =
          redisSetex(@, getSearchKey(keywords, filters), SEARCH_TTL,
                     JSONstringify([products |-> results.products,
                                    totalResults |-> results.totalResults,
                                    currentPage |-> results.currentPage,
                                    totalPages |-> results.totalPages,
                                    searchTime |-> results.searchTime, cached |-> TRUE,
                                    cachedAt |-> now]), now)]

cacheSearchResults(R, keywords, filters, results, now) ==
  LET data == [products |-> results.products, totalResults |-> results.totalResults,
               currentPage |-> results.currentPage, totalPages |-> results.totalPages,
               searchTime |-> results.searchTime, cached |-> TRUE, cachedAt |-> now]
  IN [R EXCEPT !.search =
        redisSetex(@, getSearchKey(keywords, filters), SEARCH_TTL, JSONstringify(data), now)]

\* getCachedSearchResults taking an entry without products for a miss
getCachedSearchResultsNonEmpty(R, keywords, filters, now) ==
  LET cached == redisGet(R.search, getSearchKey(keywords, filters), now)
  IN IF cached # {} /\ Len(JSONparse(The(cached)).products) > 0
       THEN {JSONparse(The(cached))} ELSE {}

\* {} for null
getCachedSearchResults(R, keywords, filters, now) ==
  LET cached == redisGet(R.search, getSearchKey(keywords, filters), now)
  IN IF cached # {} THEN {JSONparse(The(cached))} ELSE {}

clearSearchCache(R, keywords, filters, now) ==
  [R EXCEPT !.search = redisDel(@, getSearchKey(keywords, filters), now)]

clearAllCache(R) == EmptyRedis

RECURSIVE setexLinks(_, _, _)
setexLinks(ks, links, now) ==
  IF Len(links) = 0 THEN ks
  ELSE setexLinks(redisSetex(ks, getAffiliateKey(links[1].originalUrl), AFFILIATE_TTL,
                             JSONstringify(links[1]), now),
                  Tail(links), now)

\* cacheAffiliateLinks storing generated links only: a link whose affiliateUrl is
\* the original URL is left out
cacheAffiliateLinksGenerated(R, links, now) ==
  LET Generated(link) == link.affiliateUrl # link.originalUrl
  IN [R EXCEPT !.affiliate = setexLinks(@, SelectSeq(links, Generated), now)]

cacheAffiliateLinks(R, links, now) == [R EXCEPT !.affiliate = setexLinks(@, links, now)]

\* The Map of getCachedAffiliateLinks, as a function from the URLs found to links
getCachedAffiliateLinks(R, originalUrls, now) ==
  LET urls == {originalUrls[i] : i \in 1..Len(originalUrls)}
      found == {u \in urls : redisGet(R.affiliate, getAffiliateKey(u), now) # {}}
  IN [u \in found |-> JSONparse(The(redisGet(R.affiliate, getAffiliateKey(u), now)))]

\* zincrby, then zremrangebyrank key 0 -1001: the results the trim can give
\* (one, unless scores tie at the cut)
trimPopular(zs) ==
  IF Cardinality(zs) <= PopularKeep THEN {zs}
  ELSE {{e \in zs : r[e] >= Cardinality(zs) - PopularKeep} : r \in ZRankings(zs)}

\* checkRateLimit with count > limit in place of count >= limit
checkRateLimitOffByOne(R, service, identifier, limit, windowSeconds, now) ==
  LET key == getRateLimitKey(service, identifier)
      current == redisGet(R.ratelimit, key, now)
  IN IF current = {}
       THEN [redis |-> [R EXCEPT !.ratelimit = redisSetex(@, key, windowSeconds, 1, now)],
             allowed |-> TRUE, remaining |-> limit - 1, resetTime |-> now + windowSeconds]
     ELSE IF The(current) > limit
       THEN [redis |-> R, allowed |-> FALSE, remaining |-> 0,
             resetTime |-> now + redisTtl(R.ratelimit, key, now)]
     ELSE [redis |-> [R EXCEPT !.ratelimit = redisIncr(@, key, now)],
           allowed |-> TRUE, remaining |-> limit - The(current) - 1,
           resetTime |-> now + redisTtl(R.ratelimit, key, now)]

\* checkRateLimit as a sliding window: every allowed call renews the expiry
checkRateLimitSliding(R, service, identifier, limit, windowSeconds, now) ==
  LET key == getRateLimitKey(service, identifier)
      current == redisGet(R.ratelimit, key, now)
  IN IF current = {}
       THEN [redis |-> [R EXCEPT !.ratelimit = redisSetex(@, key, windowSeconds, 1, now)],
             allowed |-> TRUE, remaining |-> limit - 1, resetTime |-> now + windowSeconds]
     ELSE IF The(current) >= limit
       THEN [redis |-> R, allowed |-> FALSE, remaining |-> 0,
             resetTime |-> now + redisTtl(R.ratelimit, key, now)]
     ELSE [redis |-> [R EXCEPT !.ratelimit =
                        redisSetex(@, key, windowSeconds, The(current) + 1, now)],
           allowed |-> TRUE, remaining |-> limit - The(current) - 1,
           resetTime |-> now + redisTtl(R.ratelimit, key, now)]

\* AliExpressCache.checkRateLimit as one uninterrupted call:
\* [redis, allowed, remaining, resetTime]
checkRateLimit(R, service, identifier, limit, windowSeconds, now) ==
  LET key == getRateLimitKey(service, identifier)
      current == redisGet(R.ratelimit, key, now)
  IN IF current = {}
       THEN [redis |-> [R EXCEPT !.ratelimit = redisSetex(@, key, windowSeconds, 1, now)],
             allowed |-> TRUE, remaining |-> limit - 1, resetTime |-> now + windowSeconds]
       ELSE LET count == The(current)
                ttl == redisTtl(R.ratelimit, key, now)
            IN IF count >= limit
                 THEN [redis |-> R, allowed |-> FALSE, remaining |-> 0,
                       resetTime |-> now + ttl]
                 ELSE [redis |-> [R EXCEPT !.ratelimit = redisIncr(@, key, now)],
                       allowed |-> TRUE, remaining |-> limit - count - 1,
                       resetTime |-> now + ttl]

(***************************************************************************)
(* Search service (AliExpressService) and chat plugin (AliExpressPlugin)   *)
(***************************************************************************)
\* The relevance score with the rating and volume thresholds included
calculateRelevanceScoreInclusive(product, position) ==
  LET s0 == 100 - position * 5
      s1 == IF product.evaluateScore >= 450 THEN s0 + 10
            ELSE IF product.evaluateScore >= 400 THEN s0 + 5 ELSE s0
      s2 == IF product.volume >= 1000 THEN s1 + 10
            ELSE IF product.volume >= 100 THEN s1 + 5 ELSE s1
      s3 == IF product.commission THEN s2 + 5 ELSE s2
  IN Max2(0, Min2(100, s3))

\* Relevance score in hundredths.
calculateRelevanceScore(product, position) ==
  LET s0 == 100 - position * 5
      s1 == IF product.evaluateScore > 450 THEN s0 + 10
            ELSE IF product.evaluateScore > 400 THEN s0 + 5 ELSE s0
      s2 == IF product.volume > 1000 THEN s1 + 10
            ELSE IF product.volume > 100 THEN s1 + 5 ELSE s1
      s3 == IF product.commission THEN s2 + 5 ELSE s2
  IN Max2(0, Min2(100, s3))

getCategoryId(category) ==
  CASE category = "electronics" -> "44"
    [] category = "clothing" -> "3"
    [] category = "home" -> "13"
    [] category = "beauty" -> "66"
    [] category = "sports" -> "18"
    [] category = "toys" -> "26"
    [] category = "automotive" -> "34"
    [] OTHER -> Undefined

\* The request searchProducts(intent, pageNo, pageSize) builds
searchRequest(intent, pageNo, pageSize) ==
  [keywords |-> join(intent.keywords), categoryId |-> getCategoryId(intent.category),
   minPrice |-> intent.priceRange.min, maxPrice |-> intent.priceRange.max,
   pageNo |-> pageNo, pageSize |-> Min2(pageSize, 20)]

\* The filter object of the search-cache key
searchFilters(request) ==
  [categoryId |-> request.categoryId, minPrice |-> request.minPrice,
   maxPrice |-> request.maxPrice, pageNo |-> request.pageNo]

\* Cards in the order of their number of orders, the most ordered first
RECURSIVE insertByOrders(_, _)
insertByOrders(card, sorted) ==
  IF Len(sorted) = 0 THEN <<card>>
  ELSE IF card.seller.orders > Head(sorted).seller.orders THEN <<card>> \o sorted
  ELSE <<Head(sorted)>> \o insertByOrders(card, Tail(sorted))

RECURSIVE sortByOrders(_)
sortByOrders(cards) ==
  IF Len(cards) = 0 THEN <<>> ELSE insertByOrders(Head(cards), sortByOrders(Tail(cards)))

\* convertToProductCards returning the cards sorted by popularity
productCardsByOrders(products, cachedLinks, newAffiliateLinks) ==
  LET NewHits(url) == {j \in 1..Len(newAffiliateLinks) : newAffiliateLinks[j].originalUrl = url}
      LinkOf(url) ==
        IF NewHits(url) # {}
          THEN {newAffiliateLinks[CHOOSE j \in NewHits(url) : \A k \in NewHits(url) : k <= j]}
        ELSE IF url \in DOMAIN cachedLinks THEN {cachedLinks[url]} ELSE {}
      AffiliateUrl(product) ==
        LET link == LinkOf(product.productUrl)
        IN IF link # {} /\ The(link).affiliateUrl \notin {Undefined, ""}
             THEN The(link).affiliateUrl ELSE product.productUrl
  IN sortByOrders(
       [i \in 1..Len(products) |->
          [id |-> products[i].productId, title |-> products[i].productTitle,
           affiliateUrl |-> AffiliateUrl(products[i]), originalUrl |-> products[i].productUrl,
           seller |-> [name |-> "AliExpress Seller", rating |-> products[i].evaluateScore,
                       orders |-> products[i].volume],
           relevanceScore |-> calculateRelevanceScore(products[i], i - 1)]])

\* The tail of convertToProductCards: merge cached and new links by URL and
\* build the cards, in the order of the products.
productCards(products, cachedLinks, newAffiliateLinks) ==
  LET NewHits(url) == {j \in 1..Len(newAffiliateLinks) : newAffiliateLinks[j].originalUrl = url}
      LinkOf(url) ==
        IF NewHits(url) # {}
          THEN {newAffiliateLinks[CHOOSE j \in NewHits(url) : \A k \in NewHits(url) : k <= j]}
        ELSE IF url \in DOMAIN cachedLinks THEN {cachedLinks[url]} ELSE {}
      AffiliateUrl(product) ==
        LET link == LinkOf(product.productUrl)
        IN IF link # {} /\ The(link).affiliateUrl \notin {Undefined, ""}
             THEN The(link).affiliateUrl ELSE product.productUrl
  IN [i \in 1..Len(products) |->
        [id |-> products[i].productId, title |-> products[i].productTitle,
         affiliateUrl |-> AffiliateUrl(products[i]), originalUrl |-> products[i].productUrl,
         seller |-> [name |-> "AliExpress Seller", rating |-> products[i].evaluateScore,
                     orders |-> products[i].volume],
         relevanceScore |-> calculateRelevanceScore(products[i], i - 1)]]

CeilDiv(a, b) == (a + b - 1) \div b

\* The SearchResponse searchProducts assembles on a cache miss (times in seconds)
searchResponse(products, cards, pageNo, pageSize, startTime, now) ==
  [products |-> cards, totalResults |-> Len(products), currentPage |-> pageNo,
   totalPages |-> CeilDiv(Len(products), pageSize), searchTime |-> now - startTime,
   cached |-> FALSE]

rateLimitError(resetTime, now) ==
  "Rate limit exceeded. Please try again in " \o IntToStr(resetTime - now) \o " seconds."

ApologyError ==
  "Sorry, I encountered an error while searching for products. Please try again."

\* formatProductsForChat: its first line, and its last; the lines it prints for
\* each product are left out.
formatProductsForChat(response, query) ==
  IF Len(response.products) = 0
    THEN "I couldn't find any products matching \"" \o query
           \o "\". Try different keywords or check the spelling."
    ELSE "Found " \o IntToStr(Len(response.products)) \o " products for \"" \o query \o "\":"
           \o "*Search completed in " \o IntToStr(response.searchTime) \o "ms*"
           \o (IF response.cached THEN " *(cached result)*" ELSE "")

\* context.field of a JavaScript object: {} when the object has no such key
Field(object, key) == IF key \in DOMAIN object THEN {object[key]} ELSE {}

\* AliExpressPlugin.formatForGPT
formatForGPT(context, originalMessage) ==
  IF ~context.isProductSearch THEN ""
  ELSE IF Field(context, "error") # {} THEN context.error
  ELSE IF Field(context, "suggestions") # {} /\ Len(context.suggestions) > 0
    THEN "I can help you search for products! " \o join(context.suggestions)
  ELSE IF Field(context, "searchResponse") # {}
    THEN formatProductsForChat(context.searchResponse, originalMessage)
  ELSE ""

\* AliExpressPlugin.processMessage: the service's result, unless the plugin is disabled
pluginProcessMessage(enabled, serviceResult) ==
  IF ~enabled THEN [isProductSearch |-> FALSE] ELSE serviceResult

\* AliExpressPlugin.getProductCards
getProductCards(context) ==
  IF Field(context, "searchResponse") # {} THEN context.searchResponse.products ELSE <<>>

(***************************************************************************)
(* State                                                                   *)
(***************************************************************************)
\* The calls of processMessage the model follows, numbered in the order they
\* are made; they may overlap.
Procs == {1, 2}

Messages ==
  {"find me wireless earbuds under $20", "what's 2+2?"}

UserIds == {Undefined, "user-1"}

\* The readings of the clock, in seconds: the start, and the end of the
\* rate-limit window that opens at the start
Times == {0, 1}

\* The parser applied to the messages of the model
IntentOf == [m \in Messages |-> parseIntent(m)]

IsSearch == [m \in Messages |-> isProductSearchIntent(m)]

SuggestionsOf == [m \in Messages |-> generateSuggestions(m)]

\* processMessage calls searchProducts(intent): pageNo = 1, pageSize = 10
RequestOf == [m \in Messages |-> searchRequest(IntentOf[m], 1, 10)]

\* generateDemoSearchResponse(intent.keywords.join(' ')), for each search time
DemoResponseOf ==
  [m \in Messages |->
     [t \in DemoSearchTimes |-> generateDemoSearchResponse(join(IntentOf[m].keywords), t)]]

\* intent.keywords.join(' ').toLowerCase(), the member trackSearchTerm counts
TermOf == [m \in Messages |-> toLowerCase(join(IntentOf[m].keywords))]

VARIABLES
  setup,     \* the environment and the configuration the service was built with
  now,       \* the clock, in seconds
  redis,     \* the Redis key spaces
  pc,        \* where each call of processMessage stands
  call,      \* its arguments: [message, userId]
  local,     \* its local variables
  eff,       \* the kinds of store operation and external call it has attempted
  outcome,   \* how it ended: pending, returned (with the value) or rejected
  lastOp,    \* the last direct call of a cache or client operation, with its result
  calls,     \* per identifier, the checkRateLimit calls made since its counter was created
  written    \* the search entries written directly and not cleared since: [request, results, at]

vars == <<setup, now, redis, pc, call, local, eff, outcome, lastOp, calls, written>>

\* The variables that record direct calls of the cache and the client
direct == <<lastOp, calls, written>>

config == setup.config

NoCall == [message |-> "", userId |-> Undefined]

NoLocal ==
  [count |-> 0, startTime |-> 0, products |-> <<>>, cachedLinks |-> <<>>,
   newAffiliateLinks |-> <<>>, response |-> {}]

Pending == [status |-> "pending"]

NoOp == [name |-> "none"]

\* userId || 'anonymous'
Identifiers == {IF u = Undefined THEN "anonymous" ELSE u : u \in UserIds}

Returned(value) == [status |-> "returned", value |-> value]

Rejected == [status |-> "rejected"]

Init ==
  /\ setup \in Setups
  /\ now = 0
  /\ redis = EmptyRedis
  /\ pc = [p \in Procs |-> "idle"]
  /\ call = [p \in Procs |-> NoCall]
  /\ local = [p \in Procs |-> NoLocal]
  /\ eff = [p \in Procs |-> {}]
  /\ outcome = [p \in Procs |-> Pending]
  /\ lastOp = NoOp
  /\ calls = [i \in Identifiers |-> 0]
  /\ written = {}

intentOf(p) == IntentOf[call[p].message]

identifierOf(p) == IF call[p].userId = Undefined THEN "anonymous" ELSE call[p].userId

requestOf(p) == RequestOf[call[p].message]

rateLimitKeyOf(p) == getRateLimitKey("search", identifierOf(p))

\* processMessage returns value: the call is over and its locals are gone.
Finish(p, value, ops) ==
  /\ pc' = [pc EXCEPT ![p] = "done"]
  /\ outcome' = [outcome EXCEPT ![p] = Returned(value)]
  /\ local' = [local EXCEPT ![p] = NoLocal]
  /\ eff' = [eff EXCEPT ![p] = @ \cup ops]

\* The call goes on at label with its locals as in loc.
Goto(p, label, loc, ops) ==
  /\ pc' = [pc EXCEPT ![p] = label]
  /\ local' = [local EXCEPT ![p] = loc]
  /\ eff' = [eff EXCEPT ![p] = @ \cup ops]
  /\ UNCHANGED outcome

\* processMessage without its catch block: the error reaches the caller.
Rethrow(p, ops) ==
  /\ pc' = [pc EXCEPT ![p] = "done"]
  /\ outcome' = [outcome EXCEPT ![p] = Rejected]
  /\ local' = [local EXCEPT ![p] = NoLocal]
  /\ eff' = [eff EXCEPT ![p] = @ \cup ops \cup {"catch"}]

\* The catch block without the demo fallback: always the apology.
CatchApology(p, ops) ==
  Finish(p, [isProductSearch |-> TRUE, error |-> ApologyError], ops \cup {"catch"})

\* The catch block of processMessage, entered when one of ops has thrown: the
\* demo response when the message is a product search, the apology otherwise.
\* It touches neither the store nor the network. generateDemoSearchResponse is
\* total on strings, so the inner catch (fallbackError) is never entered; the
\* apology is what remains for a message that is no product search.
CatchBlock(p, ops) ==
  IF IsSearch[call[p].message]
    THEN \E t \in DemoSearchTimes :
           Finish(p, [isProductSearch |-> TRUE, response |-> DemoResponseOf[call[p].message][t]],
                  ops \cup {"catch"})
    ELSE Finish(p, [isProductSearch |-> TRUE, error |-> ApologyError], ops \cup {"catch"})

(***************************************************************************)
(* processMessage, one action per store operation: an action runs from one *)
(* await of a Redis command to the next, together with the external call   *)
(* and the catch block that follow it, which touch no shared state. A      *)
(* store operation may fail (Redis down, or the null client app.ts passes  *)
(* when Redis is not configured).                                          *)
(***************************************************************************)
\* processMessage with the credential test ahead of the intent test
StartCredentialsFirst(p) ==
  /\ pc[p] = "idle"
  /\ \A q \in Procs : q < p => pc[q] # "idle"
  /\ \E m \in Messages, u \in UserIds :
       /\ call' = [call EXCEPT ![p] = [message |-> m, userId |-> u]]
       /\ IF ~hasRealCredentials(config)
            THEN \E t \in DemoSearchTimes :
                   Finish(p, [isProductSearch |-> TRUE, response |-> DemoResponseOf[m][t]],
                          {"demo"})
          ELSE IF ~IsSearch[m]
            THEN Finish(p, [isProductSearch |-> FALSE, suggestions |-> SuggestionsOf[m]], {})
          ELSE Goto(p, "rl_get", local[p], {})
  /\ UNCHANGED <<direct, setup, now, redis>>

\* processMessage with the search-cache lookup ahead of the rate-limit check
StartCacheFirst(p) ==
  /\ pc[p] = "idle"
  /\ \A q \in Procs : q < p => pc[q] # "idle"
  /\ \E m \in Messages, u \in UserIds :
       /\ call' = [call EXCEPT ![p] = [message |-> m, userId |-> u]]
       /\ IF ~IsSearch[m]
            THEN Finish(p, [isProductSearch |-> FALSE, suggestions |-> SuggestionsOf[m]], {})
          ELSE IF ~hasRealCredentials(config)
            THEN \E t \in DemoSearchTimes :
                   Finish(p, [isProductSearch |-> TRUE, response |-> DemoResponseOf[m][t]],
                          {"demo"})
          ELSE Goto(p, "sc_get", local[p], {})
  /\ UNCHANGED <<direct, setup, now, redis>>

\* processMessage up to the rate-limit check
Start(p) ==
  /\ pc[p] = "idle"
  /\ \A q \in Procs : q < p => pc[q] # "idle"
  /\ \E m \in Messages, u \in UserIds :
       /\ call' = [call EXCEPT ![p] = [message |-> m, userId |-> u]]
       /\ IF ~IsSearch[m]
            THEN Finish(p, [isProductSearch |-> FALSE, suggestions |-> SuggestionsOf[m]], {})
          ELSE IF ~hasRealCredentials(config)
            THEN \E t \in DemoSearchTimes :
                   Finish(p, [isProductSearch |-> TRUE, response |-> DemoResponseOf[m][t]],
                          {"demo"})
          ELSE Goto(p, "rl_get", local[p], {})
  /\ UNCHANGED <<direct, setup, now, redis>>

\* cache.checkRateLimit: redis.get(key)
RateLimitGet(p) ==
  /\ pc[p] = "rl_get"
  /\ \E ok \in BOOLEAN :
       IF ~ok THEN CatchBlock(p, {"ratelimit"})
       ELSE LET current == redisGet(redis.ratelimit, rateLimitKeyOf(p), now)
            IN IF current = {}
                 THEN Goto(p, "rl_setex", local[p], {"ratelimit"})
                 ELSE Goto(p, "rl_ttl", [local[p] EXCEPT !.count = The(current)],
                           {"ratelimit"})
  /\ UNCHANGED <<direct, setup, now, redis, call>>

\* First request in window: redis.setex(key, 1, '1'); the check allows, and
\* searchProducts starts.
RateLimitSetex(p) ==
  /\ pc[p] = "rl_setex"
  /\ \E ok \in BOOLEAN :
       IF ~ok THEN CatchBlock(p, {"ratelimit"}) /\ UNCHANGED redis
       ELSE /\ redis' = [redis EXCEPT !.ratelimit = redisSetex(@, rateLimitKeyOf(p), 1, 1, now)]
            /\ Goto(p, "sc_get", [local[p] EXCEPT !.startTime = now], {"ratelimit"})
  /\ UNCHANGED <<direct, setup, now, call>>

\* The step below with the result of the check ignored: the call goes on.
RateLimitTtlIgnored(p) ==
  /\ pc[p] = "rl_ttl"
  /\ \E ok \in BOOLEAN :
       IF ~ok THEN CatchBlock(p, {"ratelimit"})
       ELSE IF local[p].count >= config.requestsPerSecond
         THEN Goto(p, "sc_get", [NoLocal EXCEPT !.startTime = now], {"ratelimit", "denied"})
       ELSE Goto(p, "rl_incr", NoLocal, {"ratelimit"})
  /\ UNCHANGED <<direct, setup, now, redis, call>>

\* redis.ttl(key), then the comparison with the limit: a denied call returns here.
RateLimitTtl(p) ==
  /\ pc[p] = "rl_ttl"
  /\ \E ok \in BOOLEAN :
       IF ~ok THEN CatchBlock(p, {"ratelimit"})
       ELSE LET ttl == redisTtl(redis.ratelimit, rateLimitKeyOf(p), now)
            IN IF local[p].count >= config.requestsPerSecond
                 THEN Finish(p, [isProductSearch |-> TRUE,
                                 error |-> rateLimitError(now + ttl, now)],
                             {"ratelimit", "denied"})
                 ELSE Goto(p, "rl_incr", NoLocal, {"ratelimit"})
  /\ UNCHANGED <<direct, setup, now, redis, call>>

\* redis.incr(key); the check allows, and searchProducts starts.
RateLimitIncr(p) ==
  /\ pc[p] = "rl_incr"
  /\ \E ok \in BOOLEAN :
       IF ~ok THEN CatchBlock(p, {"ratelimit"}) /\ UNCHANGED redis
       ELSE /\ redis' = [redis EXCEPT !.ratelimit = redisIncr(@, rateLimitKeyOf(p), now)]
            /\ Goto(p, "sc_get", [local[p] EXCEPT !.startTime = now], {"ratelimit"})
  /\ UNCHANGED <<direct, setup, now, call>>

\* searchProducts: cache.getCachedSearchResults; a hit is returned to
\* processMessage, a miss is followed by client.searchProducts (with no products
\* convertToProductCards returns at once).
SearchCacheGet(p) ==
  /\ pc[p] = "sc_get"
  /\ \E ok \in BOOLEAN :
       IF ~ok THEN CatchBlock(p, {"search.read"})
       ELSE LET cached == getCachedSearchResults(redis, requestOf(p).keywords,
                                                 searchFilters(requestOf(p)), now)
            IN IF cached # {}
                 THEN Goto(p, "track", [NoLocal EXCEPT !.response = cached],
                           {"search.read", "search.hit"})
                 ELSE \E o \in SearchOutcomes :
                        LET r == searchProducts(requestOf(p), o)
                        IN IF r.threw
                             THEN CatchBlock(p, {"search.read", "api.search",
                                                 "api.search.failed"})
                             ELSE Goto(p, IF Len(r.products) = 0 THEN "sc_set" ELSE "al_mget",
                                       [local[p] EXCEPT !.products = r.products],
                                       {"search.read", "api.search"})
  /\ UNCHANGED <<direct, setup, now, redis, call>>

productUrlsOf(p) == [i \in 1..Len(local[p].products) |-> local[p].products[i].productUrl]

\* convertToProductCards: cache.getCachedAffiliateLinks, then
\* client.generateAffiliateLinks for the URLs that were not cached, if any.
AffiliateMget(p) ==
  /\ pc[p] = "al_mget"
  /\ \E ok \in BOOLEAN :
       IF ~ok THEN CatchBlock(p, {"affiliate.read"})
       ELSE LET cachedLinks == getCachedAffiliateLinks(redis, productUrlsOf(p), now)
                NotCached(url) == url \notin DOMAIN cachedLinks
                urlsToProcess == SelectSeq(productUrlsOf(p), NotCached)
            IN IF Len(urlsToProcess) > 0
                 THEN \E o \in LinkOutcomesFor(urlsToProcess) :
                        LET r == generateAffiliateLinks(urlsToProcess, o, config.pid)
                            ops == {"affiliate.read", "api.links"}
                                     \cup (IF o.kind # "list" THEN {"api.links.failed"} ELSE {})
                        IN IF r.threw THEN CatchBlock(p, ops)
                           ELSE Goto(p, "al_set",
                                     [local[p] EXCEPT !.cachedLinks = cachedLinks,
                                                      !.newAffiliateLinks = r.links],
                                     ops)
                 ELSE Goto(p, "sc_set", [local[p] EXCEPT !.cachedLinks = cachedLinks],
                           {"affiliate.read"})
  /\ UNCHANGED <<direct, setup, now, redis, call>>

\* cache.cacheAffiliateLinks(newAffiliateLinks): one pipeline of setex commands
AffiliateSetex(p) ==
  /\ pc[p] = "al_set"
  /\ \E ok \in BOOLEAN :
       IF ~ok THEN CatchBlock(p, {"affiliate.write"}) /\ UNCHANGED redis
       ELSE /\ redis' = cacheAffiliateLinks(redis, local[p].newAffiliateLinks, now)
            /\ Goto(p, "sc_set", local[p], {"affiliate.write"})
  /\ UNCHANGED <<direct, setup, now, call>>

\* The step below with a failed cache write caught where it happens: the call
\* returns the response it has built.
SearchCacheSetKeepsResults(p) ==
  /\ pc[p] = "sc_set"
  /\ LET cards == productCards(local[p].products, local[p].cachedLinks,
                               local[p].newAffiliateLinks)
         response == searchResponse(local[p].products, cards, 1, 10,
                                    local[p].startTime, now)
     IN \E ok \in BOOLEAN :
          IF ~ok THEN /\ Finish(p, [isProductSearch |-> TRUE, response |-> response],
                                {"search.write", "catch"})
                      /\ UNCHANGED redis
          ELSE /\ redis' = cacheSearchResults(redis, requestOf(p).keywords,
                                              searchFilters(requestOf(p)), response, now)
               /\ Goto(p, "track", [NoLocal EXCEPT !.response = {response}],
                       {"search.write"})
  /\ UNCHANGED <<direct, setup, now, call>>

\* The cards and the response are built, then cache.cacheSearchResults.
SearchCacheSet(p) ==
  /\ pc[p] = "sc_set"
  /\ LET cards == productCards(local[p].products, local[p].cachedLinks,
                               local[p].newAffiliateLinks)
         response == searchResponse(local[p].products, cards, 1, 10,
                                    local[p].startTime, now)
     IN \E ok \in BOOLEAN :
          IF ~ok THEN CatchBlock(p, {"search.write"}) /\ UNCHANGED redis
          ELSE /\ redis' = cacheSearchResults(redis, requestOf(p).keywords,
                                              searchFilters(requestOf(p)), response, now)
               /\ Goto(p, "track", [NoLocal EXCEPT !.response = {response}],
                       {"search.write"})
  /\ UNCHANGED <<direct, setup, now, call>>

\* cache.trackSearchTerm: redis.zincrby(key, 1, term.toLowerCase())
TrackZincrby(p) ==
  /\ pc[p] = "track"
  /\ \E ok \in BOOLEAN :
       IF ~ok THEN CatchBlock(p, {"popular"}) /\ UNCHANGED redis
       ELSE /\ redis' = [redis EXCEPT !.popular =
                           redisZincrby(@, TermOf[call[p].message])]
            /\ Goto(p, "track_trim", local[p], {"popular"})
  /\ UNCHANGED <<direct, setup, now, call>>

\* redis.zremrangebyrank(key, 0, -1001), then processMessage returns the response.
TrackTrim(p) ==
  /\ pc[p] = "track_trim"
  /\ \E ok \in BOOLEAN :
       IF ~ok THEN CatchBlock(p, {"popular"}) /\ UNCHANGED redis
       ELSE /\ redis' \in {[redis EXCEPT !.popular = zs] : zs \in trimPopular(redis.popular)}
            /\ Finish(p, [isProductSearch |-> TRUE, response |-> The(local[p].response)],
                      {"popular"})
  /\ UNCHANGED <<direct, setup, now, call>>

\* Time passes; expired keys are gone.
Tick(t) ==
  /\ t > now
  /\ now' = t
  /\ redis' = Expire(redis, t)
  /\ UNCHANGED <<direct, setup, pc, call, local, eff, outcome>>

Next ==
  \/ \E p \in Procs :
       \/ Start(p)
       \/ RateLimitGet(p)
       \/ RateLimitSetex(p)
       \/ RateLimitTtl(p)
       \/ RateLimitIncr(p)
       \/ SearchCacheGet(p)
       \/ AffiliateMget(p)
       \/ AffiliateSetex(p)
       \/ SearchCacheSet(p)
       \/ TrackZincrby(p)
       \/ TrackTrim(p)
  \/ \E t \in Times : Tick(t)

Spec == Init /\ [][Next]_vars

(***************************************************************************)
(* The cache on its own: its operations called directly, one at a time,    *)
(* each running to completion, while the clock advances. One specification *)
(* drives the rate limiter, another the search cache.                      *)
(***************************************************************************)
\* The largest limit passed to checkRateLimit, and how many calls beyond the
\* limit are made on one counter
MaxCheckLimit == 3

MaxDenied == 2

\* The window lengths passed to checkRateLimit, in seconds
Windows == {1, 2}

\* The readings of the clock around the end of a rate-limit window
RateTimes == {0, 1, 2, 3}

\* The readings of the clock around the expiry of a search entry
CacheTimes == {0, 1, SEARCH_TTL - 1, SEARCH_TTL, SEARCH_TTL + 1}

\* The (keywords, filters) pairs the search cache is called with
CacheRequests ==
  {[keywords |-> "wireless earbuds",
    filters |-> [categoryId |-> "44", minPrice |-> {}, maxPrice |-> {2000}, pageNo |-> n]] :
     n \in {1, 2}}

CardA ==
  [id |-> "1", title |-> "Phone case", affiliateUrl |-> PromotionLink(U1), originalUrl |-> U1,
   seller |-> [name |-> "AliExpress Seller", rating |-> 480, orders |-> 1500],
   relevanceScore |-> 100]

CardB ==
  [id |-> "2", title |-> "Phone holder", affiliateUrl |-> U2, originalUrl |-> U2,
   seller |-> [name |-> "AliExpress Seller", rating |-> 0, orders |-> 50],
   relevanceScore |-> 95]

\* The SearchResponse values handed to cacheSearchResults
CacheResults ==
  {searchResponse(l, l, 1, 10, 0, 0) : l \in {<<>>, <<CardA, CardB>>, <<CardB, CardA>>}}

CacheSetups ==
  {[source |-> "custom", env |-> EnvSet,
    config |-> [appSecret |-> "real-secret", pid |-> "real-pid", requestsPerSecond |-> n]] :
     n \in 1..MaxCheckLimit}

DirectInit(setups) ==
  /\ setup \in setups
  /\ now = 0
  /\ redis = EmptyRedis
  /\ pc = [p \in Procs |-> "idle"]
  /\ call = [p \in Procs |-> NoCall]
  /\ local = [p \in Procs |-> NoLocal]
  /\ eff = [p \in Procs |-> {}]
  /\ outcome = [p \in Procs |-> Pending]
  /\ lastOp = NoOp
  /\ calls = [i \in Identifiers |-> 0]
  /\ written = {}

\* The record of a checkRateLimit call: its arguments, the stored counter before
\* and after it, and what it returned
rateLimitOp(identifier, limit, windowSeconds, before, r) ==
  [name |-> "checkRateLimit", identifier |-> identifier, limit |-> limit,
   windowSeconds |-> windowSeconds,
   before |-> redisGet(before.ratelimit, getRateLimitKey("search", identifier), now),
   after |-> redisGet(r.redis.ratelimit, getRateLimitKey("search", identifier), now),
   allowed |-> r.allowed, remaining |-> r.remaining, resetTime |-> r.resetTime]

\* checkRateLimit('search', identifier, limit, windowSeconds) with the configured limit
CheckRateLimit(identifier, windowSeconds) ==
  /\ calls[identifier] < config.requestsPerSecond + MaxDenied
  /\ redis' = checkRateLimit(redis, "search", identifier, config.requestsPerSecond,
                             windowSeconds, now).redis
  /\ lastOp' = rateLimitOp(identifier, config.requestsPerSecond, windowSeconds, redis,
                           checkRateLimit(redis, "search", identifier,
                                          config.requestsPerSecond, windowSeconds, now))
  /\ calls' = [calls EXCEPT ![identifier] =
                 IF redisGet(redis.ratelimit, getRateLimitKey("search", identifier), now) = {}
                   THEN 1 ELSE @ + 1]
  /\ UNCHANGED <<setup, now, pc, call, local, eff, outcome, written>>

CacheSearchResults(request, results) ==
  /\ redis' = cacheSearchResults(redis, request.keywords, request.filters, results, now)
  /\ written' = {w \in written : w.request # request}
                  \cup {[request |-> request, results |-> results, at |-> now]}
  /\ lastOp' = [name |-> "cacheSearchResults", request |-> request, at |-> now]
  /\ UNCHANGED <<setup, now, pc, call, local, eff, outcome, calls>>

GetCachedSearchResults(request) ==
  /\ lastOp' = [name |-> "getCachedSearchResults", request |-> request, at |-> now,
                result |-> getCachedSearchResults(redis, request.keywords, request.filters,
                                                  now)]
  /\ UNCHANGED <<setup, now, redis, pc, call, local, eff, outcome, calls, written>>

ClearSearchCache(request) ==
  /\ redis' = clearSearchCache(redis, request.keywords, request.filters, now)
  /\ written' = {w \in written : w.request # request}
  /\ lastOp' = [name |-> "clearSearchCache", request |-> request, at |-> now]
  /\ UNCHANGED <<setup, now, pc, call, local, eff, outcome, calls>>

ClearAllCache ==
  /\ redis' = clearAllCache(redis)
  /\ written' = {}
  /\ lastOp' = [name |-> "clearAllCache", at |-> now]
  /\ UNCHANGED <<setup, now, pc, call, local, eff, outcome, calls>>

RateLimitInit == DirectInit(CacheSetups)

RateLimitNext ==
  \/ \E identifier \in Identifiers, w \in Windows : CheckRateLimit(identifier, w)
  \/ ClearAllCache
  \/ \E t \in RateTimes : Tick(t)

RateLimitSpec == RateLimitInit /\ [][RateLimitNext]_vars

SearchCacheInit == DirectInit({s \in CacheSetups : s.config.requestsPerSecond = 1})

SearchCacheNext ==
  \/ \E request \in CacheRequests, results \in CacheResults :
       CacheSearchResults(request, results)
  \/ \E request \in CacheRequests : GetCachedSearchResults(request)
  \/ \E request \in CacheRequests : ClearSearchCache(request)
  \/ ClearAllCache
  \/ \E t \in CacheTimes : Tick(t)

SearchCacheSpec == SearchCacheInit /\ [][SearchCacheNext]_vars

(***************************************************************************)
(* The affiliate client on its own: generateAffiliateLinks called directly *)
(* with each list of URLs and each response of the link.generate call.     *)
(***************************************************************************)
\* The longest list of URLs passed in, and the longest promotion_links list
MaxUrls == 3

MaxLinks == 2

\* A URL the response may name that was not asked for
U3 == "https://www.aliexpress.com/item/3.html"

UrlLists == UNION {[1..n -> ProductUrls] : n \in 0..MaxUrls}

\* Entries of promotion_links: one for each URL, and a second one for U1
ResponseLinks ==
  {[source_value |-> u, promotion_link |-> PromotionLink(u), short_promotion_link |-> Undefined] :
     u \in {U1, U2, U3}}
  \cup {[source_value |-> U1, promotion_link |-> "https://s.click.aliexpress.com/e/again",
         short_promotion_link |-> "https://a.aliexpress.com/_again"]}

LinkOutcomes ==
  LinkFailures
  \cup {[kind |-> "list", links |-> l] :
          l \in UNION {[1..n -> ResponseLinks] : n \in 0..MaxLinks}}

LinksInit == DirectInit(ExportedSetups)

\* client.generateAffiliateLinks(productUrls), the client built with the configured pid
GenerateAffiliateLinks(productUrls, o) ==
  /\ lastOp = NoOp
  /\ lastOp' = [name |-> "generateAffiliateLinks", productUrls |-> productUrls,
                outcome |-> o, pid |-> config.pid,
                result |-> generateAffiliateLinks(productUrls, o, config.pid)]
  /\ UNCHANGED <<setup, now, redis, pc, call, local, eff, outcome, calls, written>>

LinksNext == \E productUrls \in UrlLists, o \in LinkOutcomes : GenerateAffiliateLinks(productUrls, o)

LinksSpec == LinksInit /\ [][LinksNext]_vars

(***************************************************************************)
(* searchProducts on its own: the public method called directly, one call  *)
(* at a time and each running to completion, with each page size, each     *)
(* response of the two API calls and each failure of a store operation,    *)
(* while the clock advances past the expiry of the entries.                *)
(***************************************************************************)
\* The longest product list a product.query response carries in the model
MaxProducts == 2

\* A second product: no rating, no commission
RawB ==
  [product_id |-> "2", product_title |-> "Phone holder", product_detail_url |-> U2,
   evaluate_score |-> {}, volume |-> {50}, commission_rate |-> Undefined]

\* The pageNo and pageSize arguments: the first page, with page sizes below and
\* above the cap of 20
PageNos == {1}

PageSizes == {1, 2, 25}

\* The readings of the clock: the start, and the expiry of a search entry and of
\* an affiliate link written at the start
SearchTimes == {0, SEARCH_TTL, AFFILIATE_TTL}

SearchMessage == "find me wireless earbuds under $20"

\* The responses to a product.query that asks for page_size products: the API
\* returns no more than it was asked for.
SearchOutcomesFor(page_size) ==
  {[kind |-> "error", hasProducts |-> FALSE, products |-> <<>>],
   [kind |-> "ok", hasProducts |-> FALSE, products |-> <<>>]}
  \cup {[kind |-> "ok", hasProducts |-> TRUE, products |-> l] :
          l \in UNION {[1..n -> {RawA, RawB}] : n \in 0..Min2(page_size, MaxProducts)}}

\* What a call of searchProducts keeps track of: whether the cache answered, the
\* products of the API, the links found in the cache, the URL lists handed to
\* generateAffiliateLinks, the links it returned, and the affiliate key space
\* before and after the call.
SearchLocal ==
  [hit |-> FALSE, products |-> <<>>, cachedLinks |-> <<>>, linkCalls |-> <<>>,
   newAffiliateLinks |-> <<>>, at |-> 0, affiliateBefore |-> {}, affiliateAfter |-> {}]

searchRequestOf(pageNo, pageSize) == searchRequest(IntentOf[SearchMessage], pageNo, pageSize)

\* The call p of searchProducts ends, leaving the store as R: result is what it
\* returned, or Rejected when it threw.
SearchEnds(p, pageNo, pageSize, R, result, loc, ops) ==
  /\ pc' = [pc EXCEPT ![p] = "done"]
  /\ call' = [call EXCEPT ![p] = [message |-> SearchMessage, userId |-> Undefined,
                                  pageNo |-> pageNo, pageSize |-> pageSize]]
  /\ outcome' = [outcome EXCEPT ![p] = result]
  /\ local' = [local EXCEPT ![p] = [loc EXCEPT !.at = now,
                                                !.affiliateBefore = redis.affiliate,
                                                !.affiliateAfter = R.affiliate]]
  /\ eff' = [eff EXCEPT ![p] = ops]
  /\ redis' = R
  /\ UNCHANGED <<direct, setup, now>>

\* The SearchResponse of a cache miss
searchResponseOf(loc, pageNo, pageSize) ==
  searchResponse(loc.products,
                 productCards(loc.products, loc.cachedLinks, loc.newAffiliateLinks),
                 pageNo, pageSize, now, now)

\* The response is assembled and handed to cache.cacheSearchResults.
SearchResponds(p, pageNo, pageSize, R, loc, ops) ==
  \E ok \in BOOLEAN :
    IF ~ok
      THEN SearchEnds(p, pageNo, pageSize, R, Rejected, loc,
                      ops \cup {"search.write", "search.write.failed"})
      ELSE SearchEnds(p, pageNo, pageSize,
                      cacheSearchResults(R, searchRequestOf(pageNo, pageSize).keywords,
                                         searchFilters(searchRequestOf(pageNo, pageSize)),
                                         searchResponseOf(loc, pageNo, pageSize), now),
                      Returned(searchResponseOf(loc, pageNo, pageSize)), loc,
                      ops \cup {"search.write"})

productUrlsIn(products) == [i \in 1..Len(products) |-> products[i].productUrl]

\* productUrls.filter(url => !cachedLinks.has(url))
urlsToProcessIn(products, cachedLinks) ==
  LET NotCached(url) == url \notin DOMAIN cachedLinks
  IN SelectSeq(productUrlsIn(products), NotCached)

\* generateAffiliateLinks(urls) has answered with links: cache.cacheAffiliateLinks,
\* then the response.
SearchCachesLinks(p, pageNo, pageSize, loc, r, ops) ==
  \E ok \in BOOLEAN :
    IF r.threw
      THEN SearchEnds(p, pageNo, pageSize, redis, Rejected, loc, ops)
    ELSE IF ~ok
      THEN SearchEnds(p, pageNo, pageSize, redis, Rejected,
                      [loc EXCEPT !.newAffiliateLinks = r.links],
                      ops \cup {"affiliate.write", "affiliate.write.failed"})
    ELSE SearchResponds(p, pageNo, pageSize, cacheAffiliateLinks(redis, r.links, now),
                        [loc EXCEPT !.newAffiliateLinks = r.links],
                        ops \cup {"affiliate.write"})

\* The step below asking for a link for every product, cached or not
SearchLinksAllUrls(p, pageNo, pageSize, products, cachedLinks, ops) ==
  \E o \in LinkOutcomesFor(productUrlsIn(products)) :
    SearchCachesLinks(p, pageNo, pageSize,
                      [SearchLocal EXCEPT !.products = products,
                                          !.cachedLinks = cachedLinks,
                                          !.linkCalls = <<productUrlsIn(products)>>],
                      generateAffiliateLinks(productUrlsIn(products), o, config.pid),
                      ops \cup {"api.links"})

\* convertToProductCards once the cached links are read: one call of
\* generateAffiliateLinks for the URLs that were not cached, if there are any.
SearchLinks(p, pageNo, pageSize, products, cachedLinks, ops) ==
  IF Len(urlsToProcessIn(products, cachedLinks)) > 0
    THEN \E o \in LinkOutcomesFor(urlsToProcessIn(products, cachedLinks)) :
           SearchCachesLinks(p, pageNo, pageSize,
                             [SearchLocal EXCEPT
                                !.products = products, !.cachedLinks = cachedLinks,
                                !.linkCalls = <<urlsToProcessIn(products, cachedLinks)>>],
                             generateAffiliateLinks(urlsToProcessIn(products, cachedLinks), o,
                                                    config.pid),
                             ops \cup {"api.links"})
    ELSE SearchResponds(p, pageNo, pageSize, redis,
                        [SearchLocal EXCEPT !.products = products,
                                            !.cachedLinks = cachedLinks],
                        ops)

\* convertToProductCards(products): an empty list is returned at once, otherwise
\* cache.getCachedAffiliateLinks comes first.
SearchConverts(p, pageNo, pageSize, products, ops) ==
  IF Len(products) = 0
    THEN SearchResponds(p, pageNo, pageSize, redis, SearchLocal, ops)
    ELSE \E ok \in BOOLEAN :
           IF ~ok
             THEN SearchEnds(p, pageNo, pageSize, redis, Rejected,
                             [SearchLocal EXCEPT !.products = products],
                             ops \cup {"affiliate.read", "affiliate.read.failed"})
             ELSE SearchLinks(p, pageNo, pageSize, products,
                              getCachedAffiliateLinks(redis, productUrlsIn(products), now),
                              ops \cup {"affiliate.read"})

\* The cache has no entry: client.searchProducts, then the conversion.
SearchMisses(p, pageNo, pageSize) ==
  \E o \in SearchOutcomesFor(searchRequestOf(pageNo, pageSize).pageSize) :
    IF searchProducts(searchRequestOf(pageNo, pageSize), o).threw
      THEN SearchEnds(p, pageNo, pageSize, redis, Rejected, SearchLocal,
                      {"search.read", "api.search", "api.search.failed"})
      ELSE SearchConverts(p, pageNo, pageSize,
                          searchProducts(searchRequestOf(pageNo, pageSize), o).products,
                          {"search.read", "api.search"})

\* The entry the search cache holds for the request, if any
cachedSearchOf(pageNo, pageSize) ==
  getCachedSearchResults(redis, searchRequestOf(pageNo, pageSize).keywords,
                         searchFilters(searchRequestOf(pageNo, pageSize)), now)

\* searchProducts(intent, pageNo, pageSize), the p-th call
SearchProducts(p) ==
  /\ pc[p] = "idle"
  /\ \A q \in Procs : q < p => pc[q] # "idle"
  /\ \E pageNo \in PageNos, pageSize \in PageSizes, ok \in BOOLEAN :
       IF ~ok
         THEN SearchEnds(p, pageNo, pageSize, redis, Rejected, SearchLocal,
                         {"search.read", "search.read.failed"})
       ELSE IF cachedSearchOf(pageNo, pageSize) # {}
         THEN SearchEnds(p, pageNo, pageSize, redis,
                         Returned(The(cachedSearchOf(pageNo, pageSize))),
                         [SearchLocal EXCEPT !.hit = TRUE], {"search.read", "search.hit"})
       ELSE SearchMisses(p, pageNo, pageSize)

SearchInit == DirectInit({s \in CacheSetups : s.config.requestsPerSecond = 1})

SearchNext ==
  \/ \E p \in Procs : SearchProducts(p)
  \/ \E t \in SearchTimes : Tick(t)

SearchSpec == SearchInit /\ [][SearchNext]_vars

(***************************************************************************)
(* The intent parser on its own: one call of a method of                   *)
(* ProductIntentParser on one message.                                     *)
(***************************************************************************)
\* The messages are put together from an opening, a product and a price part.
MessageOpenings == {"", "find ", "Show me ", "  Looking for "}

MessageProducts == {"", "tv", "dress", "wireless earbuds", "gadget", "blue gadget "}

MessagePrices ==
  {"", " under $20", " 10-30", " 30 to 10", " 5 - 0", " 0-5", " 0 to 0",
   " $10.50 to $30.25", " over 15"}

ParserMessages ==
  {a \o b \o c : a \in MessageOpenings, b \in MessageProducts, c \in MessagePrices}
  \cup {"what's 2+2?", "how's the weather today?", "looking for cheap phone cases",
        "show me bluetooth speakers around $50", "find me wireless earbuds under $20"}

\* The messages as extractPriceRange receives them from parseIntent
NormalizedMessages == {trim(toLowerCase(m)) : m \in ParserMessages}

\* Each action is one call of a method; it leaves the argument and the result
\* of the call in lastOp.
ParseIntent(message) ==
  /\ lastOp = NoOp
  /\ lastOp' = [name |-> "parseIntent", message |-> message,
                result |-> parseIntent(message)]
  /\ UNCHANGED <<setup, now, redis, pc, call, local, eff, outcome, calls, written>>

\* extractPriceRange(message): the groups the pattern matched, and the result
ExtractPriceRange(message) ==
  /\ lastOp = NoOp
  /\ lastOp' = [name |-> "extractPriceRange", message |-> message,
                priceMatch |-> priceMatch(message),
                result |-> extractPriceRange(message)]
  /\ UNCHANGED <<setup, now, redis, pc, call, local, eff, outcome, calls, written>>

\* isProductSearchIntent(message): the intent it parses, and the result
IsProductSearchIntent(message) ==
  /\ lastOp = NoOp
  /\ lastOp' = [name |-> "isProductSearchIntent", message |-> message,
                intent |-> parseIntent(message),
                result |-> isProductSearchIntent(message)]
  /\ UNCHANGED <<setup, now, redis, pc, call, local, eff, outcome, calls, written>>

\* generateSuggestions(message): the intent it parses, and the result
GenerateSuggestions(message) ==
  /\ lastOp = NoOp
  /\ lastOp' = [name |-> "generateSuggestions", message |-> message,
                intent |-> parseIntent(message),
                result |-> generateSuggestions(message)]
  /\ UNCHANGED <<setup, now, redis, pc, call, local, eff, outcome, calls, written>>

ParserInit == DirectInit(ExportedSetups)

ParserNext ==
  \/ \E message \in ParserMessages : ParseIntent(message)
  \/ \E message \in NormalizedMessages : ExtractPriceRange(message)
  \/ \E message \in ParserMessages : IsProductSearchIntent(message)
  \/ \E message \in ParserMessages : GenerateSuggestions(message)

ParserSpec == ParserInit /\ [][ParserNext]_vars

(***************************************************************************)
(* calculateRelevanceScore on its own: one product scored at two           *)
(* positions of a result list.                                             *)
(***************************************************************************)
\* The last position scored; the score without bonus reaches 0 at position 20
MaxPosition == 22

\* Seller ratings in hundredths and order volumes, on both sides of the thresholds
Ratings == {0, 400, 401, 450, 451, 500}

Volumes == {0, 100, 101, 1000, 1001}

ScoredProducts ==
  {[productId |-> "1", productTitle |-> "Phone case", productUrl |-> U1,
    evaluateScore |-> r, volume |-> v, commission |-> c] :
     r \in Ratings, v \in Volumes, c \in BOOLEAN}

\* calculateRelevanceScore(product, position) and calculateRelevanceScore(product, later)
CalculateRelevanceScore(product, position, later) ==
  /\ lastOp' = [name |-> "calculateRelevanceScore", product |-> product,
                position |-> position, later |-> later,
                result |-> calculateRelevanceScore(product, position),
                resultLater |-> calculateRelevanceScore(product, later)]
  /\ UNCHANGED <<setup, now, redis, pc, call, local, eff, outcome, calls, written>>

RelevanceInit == DirectInit(ExportedSetups)

\* One scoring per behaviour
RelevanceNext ==
  /\ lastOp = NoOp
  /\ \E product \in ScoredProducts, position \in 0..MaxPosition :
       \E later \in position..MaxPosition :
         CalculateRelevanceScore(product, position, later)

RelevanceSpec == RelevanceInit /\ [][RelevanceNext]_vars

(***************************************************************************)
(* checkRateLimit called concurrently: each call is a sequence of store    *)
(* commands (get, then setex, or ttl and incr), the commands of different  *)
(* calls interleave and the clock may advance between any two of them.     *)
(* The store answers every command.                                        *)
(***************************************************************************)
\* The number of checkRateLimit calls made in one behaviour
MaxCalls == 5

\* The window the service passes (part_002, checkRateLimit), in seconds
LimiterWindow == 1

\* The readings of the clock: the first window and the two after it
LimiterTimes == {0, 1, 2}

\* No call made yet
NoCalls == [name |-> "checkRateLimit", started |-> 0]

\* The locals of a checkRateLimit call. alone: the call was made after the window
\* of an earlier denial of its identifier had elapsed and before any other call
\* wrote the counter anew, while no other call was running, and no other call
\* has been made since.
LimiterLocal == [count |-> 0, ttl |-> 0, alone |-> FALSE]

LimiterInit ==
  /\ setup \in {s \in CacheSetups : s.config.requestsPerSecond <= 2}
  /\ now = 0
  /\ redis = EmptyRedis
  /\ pc = [p \in Procs |-> "idle"]
  /\ call = [p \in Procs |-> NoCall]
  /\ local = [p \in Procs |-> LimiterLocal]
  /\ eff = [p \in Procs |-> {}]
  /\ outcome = [p \in Procs |-> Pending]
  /\ lastOp = NoCalls
  /\ calls = [i \in Identifiers |-> 0]
  /\ written = {}

\* The denials of identifier whose window has elapsed at time t; written holds
\* the denials [identifier, at] that no call or write has yet followed after
\* their window
elapsedDenials(identifier, t) ==
  {d \in written : d.identifier = identifier /\ t >= d.at + LimiterWindow}

\* A call returns result; calls counts the calls allowed since the counter of
\* the identifier came into being.
LimiterReturns(p, result, created) ==
  /\ pc' = [pc EXCEPT ![p] = "done"]
  /\ outcome' = [outcome EXCEPT ![p] = Returned(result)]
  /\ calls' = [calls EXCEPT ![identifierOf(p)] =
                 IF ~result.allowed THEN @ ELSE IF created THEN 1 ELSE @ + 1]
  /\ written' = IF result.allowed THEN written \ elapsedDenials(identifierOf(p), now)
                ELSE {d \in written : d.identifier # identifierOf(p)}
                       \cup {[identifier |-> identifierOf(p), at |-> now]}
  /\ UNCHANGED <<setup, now, call, local, eff, lastOp>>

\* The call of identifier starts with current = await this.redis.get(key)
LimiterGets(p, identifier, current) ==
  /\ pc' = [pc EXCEPT ![p] = IF current = {} THEN "rl_setex" ELSE "rl_ttl"]
  /\ local' = [q \in Procs |->
                 IF q = p
                   THEN [count |-> IF current = {} THEN 0 ELSE The(current), ttl |-> 0,
                         alone |-> /\ elapsedDenials(identifier, now) # {}
                                   /\ \A r \in Procs \ {p} : pc[r] \in {"idle", "done"}]
                   ELSE [local[q] EXCEPT !.alone = FALSE]]
  /\ written' = written \ elapsedDenials(identifier, now)

\* checkRateLimit('search', userId || 'anonymous', limit, 1) is called and reads
\* the counter
LimiterStart(p) ==
  /\ pc[p] \in {"idle", "done"}
  /\ lastOp.started < MaxCalls
  /\ \E u \in UserIds :
       /\ call' = [call EXCEPT ![p] = [message |-> "", userId |-> u]]
       /\ LimiterGets(p, IF u = Undefined THEN "anonymous" ELSE u,
                      redisGet(redis.ratelimit,
                               getRateLimitKey("search",
                                               IF u = Undefined THEN "anonymous" ELSE u),
                               now))
  /\ outcome' = [outcome EXCEPT ![p] = Pending]
  /\ lastOp' = [lastOp EXCEPT !.started = @ + 1]
  /\ UNCHANGED <<setup, now, redis, eff, calls>>

\* await this.redis.setex(key, windowSeconds, '1'), and the return that follows
LimiterSetex(p) ==
  /\ pc[p] = "rl_setex"
  /\ redis' = [redis EXCEPT !.ratelimit =
                 redisSetex(@, rateLimitKeyOf(p), LimiterWindow, 1, now)]
  /\ LimiterReturns(p, [allowed |-> TRUE, remaining |-> config.requestsPerSecond - 1,
                        resetTime |-> now + LimiterWindow],
                    redisGet(redis.ratelimit, rateLimitKeyOf(p), now) = {})

\* The step below with a counter equal to the limit still allowed
LimiterTtlOffByOne(p) ==
  /\ pc[p] = "rl_ttl"
  /\ IF local[p].count > config.requestsPerSecond
       THEN /\ LimiterReturns(p, [allowed |-> FALSE, remaining |-> 0,
                                  resetTime |->
                                    now + redisTtl(redis.ratelimit, rateLimitKeyOf(p), now)],
                              FALSE)
            /\ UNCHANGED redis
       ELSE /\ pc' = [pc EXCEPT ![p] = "rl_incr"]
            /\ local' = [local EXCEPT ![p].ttl =
                           redisTtl(redis.ratelimit, rateLimitKeyOf(p), now)]
            /\ UNCHANGED <<setup, now, redis, call, eff, outcome, lastOp, calls, written>>

\* const ttl = await this.redis.ttl(key), and the return of a denied call
LimiterTtl(p) ==
  /\ pc[p] = "rl_ttl"
  /\ IF local[p].count >= config.requestsPerSecond
       THEN /\ LimiterReturns(p, [allowed |-> FALSE, remaining |-> 0,
                                  resetTime |->
                                    now + redisTtl(redis.ratelimit, rateLimitKeyOf(p), now)],
                              FALSE)
            /\ UNCHANGED redis
       ELSE /\ pc' = [pc EXCEPT ![p] = "rl_incr"]
            /\ local' = [local EXCEPT ![p].ttl =
                           redisTtl(redis.ratelimit, rateLimitKeyOf(p), now)]
            /\ UNCHANGED <<setup, now, redis, call, eff, outcome, lastOp, calls, written>>

\* await this.redis.incr(key), and the return that follows
LimiterIncr(p) ==
  /\ pc[p] = "rl_incr"
  /\ redis' = [redis EXCEPT !.ratelimit = redisIncr(@, rateLimitKeyOf(p), now)]
  /\ LimiterReturns(p, [allowed |-> TRUE,
                        remaining |-> config.requestsPerSecond - local[p].count - 1,
                        resetTime |-> now + local[p].ttl],
                    redisGet(redis.ratelimit, rateLimitKeyOf(p), now) = {})

LimiterNext ==
  \/ \E p \in Procs :
       \/ LimiterStart(p)
       \/ LimiterSetex(p)
       \/ LimiterTtl(p)
       \/ LimiterIncr(p)
  \/ \E t \in LimiterTimes : Tick(t)

LimiterSpec == LimiterInit /\ [][LimiterNext]_vars

(***************************************************************************)
(* trackSearchTerm on its own: calls made one after another on a           *)
(* popular_searches set that already holds other terms.                    *)
(***************************************************************************)
\* The terms of the model that can be members of popular_searches at one time
MaxTracked == 2

\* The number of trackSearchTerm calls made in one behaviour
MaxTrackCalls == 5

\* popular_searches holds this many other terms, each searched more often than
\* MaxTrackCalls times: they outrank every term of the model, so the trim
\* (zremrangebyrank key 0 -1001) leaves PopularKeep - Residents places to the
\* terms of the model.
Residents == PopularKeep - MaxTracked

\* The lower-cased terms, in the lexicographic order Redis gives members of
\* equal score
TermOrder == <<"bag", "case", "lamp", "sofa">>

TrackedTerms == {TermOrder[i] : i \in 1..Len(TermOrder)}

\* The arguments of trackSearchTerm
TrackArguments == TrackedTerms \cup {"Lamp", "SOFA"}

termIndex(member) == CHOOSE i \in 1..Len(TermOrder) : TermOrder[i] = member

\* The rank of entry e in the sorted set zs: lowest score first, members of
\* equal score in lexicographic order
zrank(zs, e) ==
  Cardinality({x \in zs : \/ x.score < e.score
                          \/ x.score = e.score /\ termIndex(x.member) < termIndex(e.member)})

\* zremrangebyrank that removes the highest ranks instead of the lowest
trimRanksTop(zs, keep) == {e \in zs : zrank(zs, e) < keep}

\* zremrangebyrank key 0 -(keep + 1): the lowest ranks go, keep members stay
trimRanks(zs, keep) == {e \in zs : zrank(zs, e) >= Cardinality(zs) - keep}

NoTracking == [name |-> "trackSearchTerm", made |-> 0]

PopularInit ==
  /\ setup \in ExportedSetups
  /\ now = 0
  /\ redis = EmptyRedis
  /\ pc = [p \in Procs |-> "idle"]
  /\ call = [p \in Procs |-> NoCall]
  /\ local = [p \in Procs |-> NoLocal]
  /\ eff = [p \in Procs |-> {}]
  /\ outcome = [p \in Procs |-> Pending]
  /\ lastOp = NoTracking
  /\ calls = [t \in TrackedTerms |-> 0]
  /\ written = {}

\* trackSearchTerm(term): zincrby, then the trim. calls counts the calls made
\* for each lower-cased term; written holds the terms the trim has removed.
TrackSearchTerm(term) ==
  /\ lastOp.made < MaxTrackCalls
  /\ redis' = [redis EXCEPT !.popular =
                 trimRanks(redisZincrby(@, toLowerCase(term)), PopularKeep - Residents)]
  /\ calls' = [calls EXCEPT ![toLowerCase(term)] = @ + 1]
  /\ written' = written
                  \cup {e.member : e \in redisZincrby(redis.popular, toLowerCase(term))
                                          \ redis'.popular}
  /\ lastOp' = [name |-> "trackSearchTerm", made |-> lastOp.made + 1]
  /\ UNCHANGED <<setup, now, pc, call, local, eff, outcome>>

PopularNext == \E term \in TrackArguments : TrackSearchTerm(term)

PopularSpec == PopularInit /\ [][PopularNext]_vars

(***************************************************************************)
(* Properties                                                              *)
(***************************************************************************)
\* The result of a finished call
valueOf(p) == outcome[p].value

Finished(p) == pc[p] = "done" /\ outcome[p].status = "returned"

\* The kinds of operation a request makes beyond the rate-limit check
ExternalCalls == {"api.search", "api.links"}

CacheWrites == {"search.write", "affiliate.write"}

\* C1: every call of processMessage, whatever the message and whichever store
\* operation, search call or link call fails, ends by returning a result object
\* with isProductSearch and at most response, suggestions and error; it never
\* rejects.
C1_NeverThrows ==
  \A p \in Procs :
    /\ outcome[p].status # "rejected"
    /\ pc[p] = "done" =>
         /\ outcome[p].status = "returned"
         /\ "isProductSearch" \in DOMAIN valueOf(p)
         /\ DOMAIN valueOf(p) \subseteq {"isProductSearch", "response", "suggestions", "error"}

\* A call that ended in the catch block after the link-generation call failed,
\* and one after a store operation failed.
C1_Witness ==
  \E p \in Procs :
    /\ Finished(p)
    /\ "catch" \in eff[p]
    /\ "popular" \in eff[p]
    /\ "api.links.failed" \in eff[p]

\* C2: with limit N, the calls of checkRateLimit on one identifier since its
\* counter was created: calls 1..N are allowed, and call N+1 and every later one
\* is denied with remaining 0 and leaves the stored counter at N.
C2_RateLimitWindow ==
  lastOp.name = "checkRateLimit" =>
    IF calls[lastOp.identifier] <= lastOp.limit
      THEN lastOp.allowed
      ELSE /\ ~lastOp.allowed
           /\ lastOp.remaining = 0
           /\ lastOp.before = {lastOp.limit}
           /\ lastOp.after = {lastOp.limit}

\* The second denied call in a window with limit 2.
C2_Witness ==
  /\ lastOp.name = "checkRateLimit"
  /\ lastOp.limit = 2
  /\ calls[lastOp.identifier] = 4
  /\ ~lastOp.allowed

\* C3: a request the rate-limit check denies ends with {isProductSearch: true,
\* error} and no response, and makes no search call, no link-generation call,
\* no search-cache write and no popularity tracking.
C3_DeniedRequest ==
  \A p \in Procs :
    "denied" \in eff[p] =>
      /\ Finished(p)
      /\ DOMAIN valueOf(p) = {"isProductSearch", "error"}
      /\ valueOf(p).isProductSearch
      /\ eff[p] \cap (ExternalCalls \cup {"search.write", "popular"}) = {}

\* A denied request, with real credentials configured.
C3_Witness ==
  \E p \in Procs :
    /\ "denied" \in eff[p]
    /\ pc[p] = "done"
    /\ config.appSecret = "real-secret"
    /\ config.pid = "real-pid"

\* The unexpired search entries stored for the request of call p
liveEntriesFor(p) ==
  {e \in redis.search :
     /\ e.key = getSearchKey(requestOf(p).keywords, searchFilters(requestOf(p)))
     /\ e.exp > now}

\* The cache read of call p finds an entry: the call goes on with that entry,
\* flagged as cached, as the result of searchProducts.
C4_HitStep(p) ==
  (/\ pc[p] = "sc_get"
   /\ pc'[p] # "sc_get"
   /\ "catch" \notin eff'[p]
   /\ liveEntriesFor(p) # {})
  => /\ pc'[p] = "track"
     /\ local'[p].response = {e.value[2] : e \in liveEntriesFor(p)}
     /\ \A r \in local'[p].response : r.cached = TRUE
     /\ "search.hit" \in eff'[p]

\* A request answered from the search cache has made no search call, no link
\* call and no cache write; the response it returns is flagged as cached.
C4_HitEffects(p) ==
  "search.hit" \in eff[p] =>
    /\ eff[p] \cap (ExternalCalls \cup CacheWrites) = {}
    /\ (Finished(p) /\ "catch" \notin eff[p]) =>
         /\ "response" \in DOMAIN valueOf(p)
         /\ valueOf(p).response.cached = TRUE

\* C4: when the search cache holds an unexpired entry for the request's
\* (keywords, categoryId, minPrice, maxPrice, pageNo), searchProducts returns that
\* entry with cached = true, and the request makes no external search call, no
\* link generation and no search-cache or link-cache write.
C4_CacheHit ==
  /\ [](\A p \in Procs : C4_HitEffects(p))
  /\ [][\A p \in Procs : C4_HitStep(p)]_vars

\* A call that returned a cached response with a product in it.
C4_Witness ==
  \E p \in Procs :
    /\ Finished(p)
    /\ "search.hit" \in eff[p]
    /\ "catch" \notin eff[p]
    /\ valueOf(p).response.cached = TRUE
    /\ Len(valueOf(p).response.products) = 1

matchesOf(links, url) == {j \in 1..Len(links) : links[j].source_value = url}

\* C6: generateAffiliateLinks(urls) does not throw and returns one entry for each
\* URL, in order, with originalUrl = urls[i] and trackingId = the configured pid;
\* when the call fails or the response carries no promotion-link list every entry
\* has affiliateUrl = originalUrl, and when the response names only some of the
\* URLs the others are passed through and the named ones carry their promotion
\* link.
C6_LinksNeverThrow ==
  lastOp.name = "generateAffiliateLinks" =>
    /\ ~lastOp.result.threw
    /\ Len(lastOp.result.links) = Len(lastOp.productUrls)
    /\ \A i \in 1..Len(lastOp.productUrls) :
         /\ lastOp.result.links[i].originalUrl = lastOp.productUrls[i]
         /\ lastOp.result.links[i].trackingId = setup.config.pid
         /\ (lastOp.outcome.kind # "list" \/ matchesOf(lastOp.outcome.links, lastOp.productUrls[i]) = {})
              => lastOp.result.links[i].affiliateUrl = lastOp.productUrls[i]
         /\ (lastOp.outcome.kind = "list" /\ matchesOf(lastOp.outcome.links, lastOp.productUrls[i]) # {})
              => \E j \in matchesOf(lastOp.outcome.links, lastOp.productUrls[i]) :
                   /\ \A k \in matchesOf(lastOp.outcome.links, lastOp.productUrls[i]) : k <= j
                   /\ lastOp.result.links[i].affiliateUrl = lastOp.outcome.links[j].promotion_link

\* Three URLs and a failed call: three entries, each passed through.
C6_Witness ==
  /\ lastOp.name = "generateAffiliateLinks"
  /\ lastOp.outcome.kind = "error"
  /\ Len(lastOp.productUrls) = 3
  /\ Len(lastOp.result.links) = 3
  /\ \A i \in 1..3 : lastOp.result.links[i].affiliateUrl = lastOp.productUrls[i]

C8_PlaceholderDemoPath ==
  (setup.config.appSecret = "demo-secret" \/ setup.config.pid = "demo-pid") =>
    /\ redis = EmptyRedis
    /\ \A p \in Procs :
         (pc[p] # "idle" /\ IsSearch[call[p].message]) =>
           /\ Finished(p)
           /\ eff[p] = {"demo"}
           /\ DOMAIN valueOf(p) = {"isProductSearch", "response"}
           /\ valueOf(p).isProductSearch
           /\ valueOf(p).response.cached = FALSE
           /\ \E t \in DemoSearchTimes :
                valueOf(p).response = DemoResponseOf[call[p].message][t]

\* A search answered from the demo data with a real secret and a placeholder pid.
C8_Witness ==
  \E p \in Procs :
    /\ setup.config.appSecret = "real-secret"
    /\ setup.config.pid = "demo-pid"
    /\ Finished(p)
    /\ IsSearch[call[p].message]
    /\ eff[p] = {"demo"}
    /\ Len(valueOf(p).response.products) > 0

\* C9: with the credential variables unset and the exported configuration at its
\* defaults, a product-search message takes the demo path: no rate-limit check,
\* no cache access and no external call.
C9_AbsentCredentialsDemoPath ==
  (setup.env = EnvUnset /\ setup.source \in {"config", "demo-config"}) =>
    \A p \in Procs :
      (pc[p] # "idle" /\ IsSearch[call[p].message]) => eff[p] = {"demo"}

\* C10: for the context the plugin returns after a successful product search,
\* getProductCards gives the products of the service's search response and
\* formatForGPT gives the service's formatted text, not the empty string.
C10_PluginReadsTheResponse ==
  \A p \in Procs :
    (Finished(p) /\ DOMAIN valueOf(p) = {"isProductSearch", "response"}) =>
      /\ getProductCards(pluginProcessMessage(TRUE, valueOf(p)))
           = valueOf(p).response.products
      /\ formatForGPT(pluginProcessMessage(TRUE, valueOf(p)), call[p].message)
           = formatProductsForChat(valueOf(p).response, call[p].message)
      /\ formatForGPT(pluginProcessMessage(TRUE, valueOf(p)), call[p].message) # ""

\* C11: a message that is no product search is answered with {isProductSearch:
\* false, suggestions}, with neither response nor error, and the call makes no
\* rate-limit check, no cache read or write and no external call, whatever the
\* credentials are.
C11_NonSearchMessage ==
  \A p \in Procs :
    (pc[p] # "idle" /\ ~IsSearch[call[p].message]) =>
      /\ Finished(p)
      /\ DOMAIN valueOf(p) = {"isProductSearch", "suggestions"}
      /\ valueOf(p).isProductSearch = FALSE
      /\ valueOf(p).suggestions = SuggestionsOf[call[p].message]
      /\ eff[p] = {}

\* A message that is no product search, answered with suggestions while real
\* credentials are configured.
C11_Witness ==
  \E p \in Procs :
    /\ Finished(p)
    /\ call[p].message = "what's 2+2?"
    /\ setup.config.appSecret = "real-secret"
    /\ setup.config.pid = "real-pid"
    /\ valueOf(p).isProductSearch = FALSE
    /\ Len(valueOf(p).suggestions) > 0

\* C13: every stored search entry, affiliate-link entry and rate-limit counter
\* carries an expiry, no later than 3600 s, 86400 s and the one-second window of
\* the service after the present.
C13_EntriesExpire ==
  /\ \A e \in redis.search : e.exp # NoExpiry /\ e.exp - now <= SEARCH_TTL
  /\ \A e \in redis.affiliate : e.exp # NoExpiry /\ e.exp - now <= AFFILIATE_TTL
  /\ \A e \in redis.ratelimit : e.exp # NoExpiry /\ e.exp - now <= 1

\* C12: every response searchProducts(intent, pageNo, pageSize) returns has no
\* more products than the page size asked for, capped at 20, from the API and
\* from the cache alike.
C12_PageSizeBound ==
  \A p \in Procs :
    Finished(p) => Len(valueOf(p).products) <= Min2(call[p].pageSize, 20)

\* The product URLs of call p that had no unexpired entry in the affiliate-link
\* cache when the call was made, in the order of the products
uncachedUrlsOf(p) ==
  LET NoEntry(url) ==
        ~\E e \in local[p].affiliateBefore :
            e.key = getAffiliateKey(url) /\ e.exp > local[p].at
  IN SelectSeq(productUrlsIn(local[p].products), NoEntry)

\* The entry cacheAffiliateLinks stores for a link at time t
linkEntry(link, t) ==
  [key |-> getAffiliateKey(link.originalUrl), value |-> JSONstringify(link),
   exp |-> t + AFFILIATE_TTL]

\* C18: in one cache-miss search link generation is called at most once, with
\* exactly the product URLs that have no unexpired entry in the affiliate-link
\* cache; it is not called when every URL is cached, when the product list is
\* empty or when the search cache answers; and every link it returns is written
\* to the affiliate-link cache.
C18_LinkGenerationOnce ==
  \A p \in Procs :
    pc[p] = "done" =>
      /\ Len(local[p].linkCalls) <= 1
      /\ ("affiliate.read" \in eff[p] /\ "affiliate.read.failed" \notin eff[p]) =>
           local[p].linkCalls =
             IF Len(uncachedUrlsOf(p)) = 0 THEN <<>> ELSE <<uncachedUrlsOf(p)>>
      /\ (local[p].hit \/ Len(local[p].products) = 0) => local[p].linkCalls = <<>>
      /\ ("api.links" \in eff[p]) <=> (local[p].linkCalls # <<>>)
      /\ (local[p].linkCalls # <<>> /\ "affiliate.write.failed" \notin eff[p]) =>
           /\ Len(local[p].newAffiliateLinks) = Len(local[p].linkCalls[1])
           /\ \A i \in 1..Len(local[p].newAffiliateLinks) :
                linkEntry(local[p].newAffiliateLinks[i], local[p].at)
                  \in local[p].affiliateAfter

\* A search of two products, the first with a link still in the cache: link
\* generation is called for the second alone.
C18_Witness ==
  \E p \in Procs :
    /\ Finished(p)
    /\ ~local[p].hit
    /\ productUrlsIn(local[p].products) = <<U1, U2>>
    /\ DOMAIN local[p].cachedLinks = {U1}
    /\ local[p].linkCalls = << <<U2>> >>
    /\ linkEntry(local[p].newAffiliateLinks[1], local[p].at) \in redis.affiliate

\* The links call p had for url: those generateAffiliateLinks returned, and the
\* one the affiliate-link cache held
linksFor(p, url) ==
  {local[p].newAffiliateLinks[j] :
     j \in {k \in 1..Len(local[p].newAffiliateLinks) :
              local[p].newAffiliateLinks[k].originalUrl = url}}
  \cup {JSONparse(e.value) :
          e \in {x \in local[p].affiliateBefore :
                   x.key = getAffiliateKey(url) /\ x.exp > local[p].at}}

\* C19: on a cache miss the cards come in the order of the API's products: card i
\* has the URL and the id of product i, and its affiliateUrl is that of the
\* cached or generated link for that URL, or the product's own URL when there is
\* no such link or its affiliateUrl is empty.
C19_CardsFollowProducts ==
  \A p \in Procs :
    (Finished(p) /\ ~local[p].hit) =>
      /\ Len(valueOf(p).products) = Len(local[p].products)
      /\ \A i \in 1..Len(local[p].products) :
           /\ valueOf(p).products[i].originalUrl = local[p].products[i].productUrl
           /\ valueOf(p).products[i].id = local[p].products[i].productId
           /\ valueOf(p).products[i].affiliateUrl \in
                IF \E l \in linksFor(p, local[p].products[i].productUrl) :
                     l.affiliateUrl \notin {Undefined, ""}
                  THEN {l.affiliateUrl : l \in linksFor(p, local[p].products[i].productUrl)}
                  ELSE {local[p].products[i].productUrl}

\* The less ordered product first and the more ordered one second, the second
\* with its cached promotion link and the first with its own URL.
C19_Witness ==
  \E p \in Procs :
    /\ Finished(p)
    /\ ~local[p].hit
    /\ Len(valueOf(p).products) = 2
    /\ valueOf(p).products[1].originalUrl = U2
    /\ valueOf(p).products[1].affiliateUrl = U2
    /\ valueOf(p).products[2].originalUrl = U1
    /\ U1 \in DOMAIN local[p].cachedLinks
    /\ valueOf(p).products[2].affiliateUrl = PromotionLink(U1)

\* The confidence the claim's formula gives for a normalized message and the
\* intent parsed from it, in tenths
claimedConfidence(normalizedMessage, intent) ==
  Clamp(5
        + 2 * (IF \E indicator \in searchIndicators : includes(normalizedMessage, indicator)
                 THEN 1 ELSE 0)
        + (IF Len(intent.keywords) >= 2 THEN 1 ELSE 0)
        + (IF intent.priceRange.present THEN 1 ELSE 0)
        + (IF intent.category # Undefined THEN 1 ELSE 0)
        - 2 * (IF Len(normalizedMessage) < 10 \/ Len(intent.keywords) = 0 THEN 1 ELSE 0),
        0, 10)

\* C14: isProductSearchIntent(m) is true exactly when the confidence formula
\* (0.5, +0.2 for a search indicator, +0.1 each for two or more keywords, a price
\* range and a category, -0.2 for a message shorter than 10 characters or
\* without keywords, clamped to [0, 1]) is strictly above 0.6; a message at
\* exactly 0.6 is not a product search, one with all four positive signals is.
C14_ConfidenceThreshold ==
  lastOp.name = "isProductSearchIntent" =>
    /\ lastOp.result
         <=> claimedConfidence(trim(toLowerCase(lastOp.message)), lastOp.intent) > 6
    /\ lastOp.intent.confidence
         = claimedConfidence(trim(toLowerCase(lastOp.message)), lastOp.intent)
    /\ lastOp.intent.confidence = 6 => ~lastOp.result
    /\ ( /\ \E indicator \in searchIndicators :
              includes(trim(toLowerCase(lastOp.message)), indicator)
         /\ Len(lastOp.intent.keywords) >= 2
         /\ lastOp.intent.priceRange.present
         /\ lastOp.intent.category # Undefined ) => lastOp.result

\* "find tv": an indicator and a category, no keyword left, so 0.5 + 0.2 + 0.1 -
\* 0.2 = 0.6 exactly, and it is no product search.
C14_Witness ==
  /\ lastOp.name = "isProductSearchIntent"
  /\ lastOp.message = "find tv"
  /\ lastOp.intent.keywords = <<>>
  /\ lastOp.intent.category = "electronics"
  /\ lastOp.intent.confidence = 6
  /\ ~lastOp.result

\* C15 as stated: for "what's 2+2?" parseIntent yields zero keywords and a
\* confidence of at most 0.3, and the message is not classified as a product
\* search.
C15_NoKeywords ==
  (lastOp.name = "isProductSearchIntent" /\ lastOp.message = "what's 2+2?") =>
    /\ Len(lastOp.intent.keywords) = 0
    /\ lastOp.intent.confidence <= 3
    /\ ~lastOp.result

\* C15: for "what's 2+2?" parseIntent yields the single keyword "what's" and
\* the price range {max: 2}, hence a confidence of exactly 0.6, which is not
\* above 0.6: the message is not classified as a product search.
C15_AtThreshold ==
  (lastOp.name = "isProductSearchIntent" /\ lastOp.message = "what's 2+2?") =>
    /\ lastOp.intent.keywords = <<"what's">>
    /\ lastOp.intent.priceRange = [present |-> TRUE, min |-> NoNumber, max |-> {200}]
    /\ lastOp.intent.category = Undefined
    /\ lastOp.intent.confidence = 6
    /\ ~lastOp.result

C15_Witness ==
  /\ lastOp.name = "isProductSearchIntent"
  /\ lastOp.message = "what's 2+2?"
  /\ Len(lastOp.intent.keywords) = 1
  /\ lastOp.result = FALSE

BeMoreSpecific == "Could you be more specific about what product you're looking for?"

BudgetPrompt == "What's your budget range for this item?"

CategoryPrompt == "What category of product are you interested in?"

StylePrompt(keyword) == "Are you looking for " \o keyword \o " in any specific style or brand?"

\* The prompts in a list of suggestions
promptsIn(suggestions) == {suggestions[i] : i \in 1..Len(suggestions)}

\* The budget, category and style checks, each on its own
threeChecksHold(intent, prompts) ==
  /\ BudgetPrompt \in prompts <=> ~intent.priceRange.present
  /\ CategoryPrompt \in prompts <=> intent.category = Undefined
  /\ (\E i \in 1..Len(intent.keywords) : StylePrompt(intent.keywords[i]) \in prompts)
       <=> Len(intent.keywords) = 1

\* C16 as stated: the four checks of generateSuggestions are independent, so that
\* the list holds the "be more specific" prompt iff no keyword remains, the
\* budget prompt iff no price range was extracted, the category prompt iff no
\* category was detected and the style prompt iff exactly one keyword remains.
C16_IndependentChecks ==
  lastOp.name = "generateSuggestions" =>
    /\ BeMoreSpecific \in promptsIn(lastOp.result) <=> Len(lastOp.intent.keywords) = 0
    /\ BudgetPrompt \in promptsIn(lastOp.result) <=> ~lastOp.intent.priceRange.present
    /\ CategoryPrompt \in promptsIn(lastOp.result) <=> lastOp.intent.category = Undefined
    /\ (\E i \in 1..Len(lastOp.intent.keywords) :
          StylePrompt(lastOp.intent.keywords[i]) \in promptsIn(lastOp.result))
         <=> Len(lastOp.intent.keywords) = 1

\* C16: when no keyword remains generateSuggestions returns the "be more
\* specific" prompt alone, whatever the price range and the category; when a
\* keyword remains it applies the three other checks independently: budget
\* prompt iff no price range, category prompt iff no category, style prompt iff
\* exactly one keyword.
C16_EarlyReturn ==
  lastOp.name = "generateSuggestions" =>
    IF Len(lastOp.intent.keywords) = 0
      THEN lastOp.result = <<BeMoreSpecific>>
      ELSE /\ BeMoreSpecific \notin promptsIn(lastOp.result)
           /\ threeChecksHold(lastOp.intent, promptsIn(lastOp.result))

\* No keyword, no price range and no category: one prompt only.
C16_Witness ==
  /\ lastOp.name = "generateSuggestions"
  /\ Len(lastOp.intent.keywords) = 0
  /\ ~lastOp.intent.priceRange.present
  /\ lastOp.intent.category = Undefined
  /\ lastOp.result = <<BeMoreSpecific>>

\* C17: whenever the price pattern finds two numbers a and b, 0 included,
\* extractPriceRange returns {min: min(a, b), max: max(a, b)}.
C17_TwoNumbers ==
  (lastOp.name = "extractPriceRange" /\ lastOp.priceMatch.matched
     /\ lastOp.priceMatch.g2 # Undefined) =>
    lastOp.result =
      [present |-> TRUE,
       min |-> {Min2(parseFloat(lastOp.priceMatch.g1), parseFloat(lastOp.priceMatch.g2))},
       max |-> {Max2(parseFloat(lastOp.priceMatch.g1), parseFloat(lastOp.priceMatch.g2))}]

\* The score the claim's formula gives, in hundredths
claimedScore(product, position) ==
  Clamp(100 - 5 * position
        + (IF product.evaluateScore > 450 THEN 10
           ELSE IF product.evaluateScore > 400 THEN 5 ELSE 0)
        + (IF product.volume > 1000 THEN 10 ELSE IF product.volume > 100 THEN 5 ELSE 0)
        + (IF product.commission THEN 5 ELSE 0),
        0, 100)

\* C20: the relevance score of a product at 0-based position p is 1.0 - 0.05 p
\* plus the rating bonus (0.1 above 4.5, else 0.05 above 4.0), the volume bonus
\* (0.1 above 1000, else 0.05 above 100) and 0.05 for a commission, clamped to
\* [0, 1]; it lies in [0, 1], is the same on every run over the same input, and
\* the same product at a later position never scores higher.
C20_RelevanceScore ==
  lastOp.name = "calculateRelevanceScore" =>
    /\ lastOp.result = claimedScore(lastOp.product, lastOp.position)
    /\ lastOp.resultLater = claimedScore(lastOp.product, lastOp.later)
    /\ lastOp.result \in 0..100
    /\ lastOp.resultLater \in 0..100
    /\ lastOp.later = lastOp.position => lastOp.resultLater = lastOp.result
    /\ lastOp.resultLater <= lastOp.result

\* A rating of exactly 4.5 and a volume of exactly 1000 earn the smaller bonuses,
\* and the score falls with the position.
C20_Witness ==
  /\ lastOp.name = "calculateRelevanceScore"
  /\ lastOp.product.evaluateScore = 450
  /\ lastOp.product.volume = 1000
  /\ ~lastOp.product.commission
  /\ lastOp.position = 3
  /\ lastOp.later = 4
  /\ lastOp.result = 95
  /\ lastOp.resultLater = 90

\* The rate-limit entries stored for identifier in the key space ks
counterOf(ks, identifier) == {e \in ks : e.key = getRateLimitKey("search", identifier)}

\* What a checkRateLimit call that left op behind did to the counter, given the
\* entries before and after it and the time of the call
fixedWindowStep(op, old, new, t) ==
  IF old = {}
    THEN /\ new = {[key |-> getRateLimitKey("search", op.identifier), value |-> 1,
                    exp |-> t + op.windowSeconds]}
         /\ op.allowed /\ op.remaining = op.limit - 1
         /\ op.resetTime = t + op.windowSeconds
  ELSE IF The(old).value >= op.limit
    THEN /\ new = old
         /\ ~op.allowed /\ op.remaining = 0
         /\ op.resetTime = The(old).exp
  ELSE /\ new = {[The(old) EXCEPT !.value = @ + 1]}
       /\ op.allowed /\ op.remaining = op.limit - The(new).value
       /\ op.resetTime = The(old).exp

allowedOf(p) == outcome[p].value.allowed

\* C22: the rate-limit counter resets when its window expires: after a denial,
\* the first call made once the window has elapsed is allowed, whatever the
\* interleaving of earlier calls with the expiry of the key.
C22_ResetsAfterWindow ==
  \A p \in Procs : (Finished(p) /\ local[p].alone) => allowedOf(p)

\* C26 as stated: with the store commands of checkRateLimit calls interleaved,
\* no more than limit calls are allowed within one window and the stored
\* counter never exceeds limit.
C26_NeverExceedsLimit ==
  \A identifier \in Identifiers :
    /\ calls[identifier] <= config.requestsPerSecond
    /\ \A e \in counterOf(redis.ratelimit, identifier) : e.value <= config.requestsPerSecond

\* C26: with the store commands of checkRateLimit calls interleaved, a call is
\* allowed exactly when the counter it read was absent or below limit, and the
\* stored counter never exceeds limit by more than the number of other calls
\* that can be running at the same time.
C26_BoundedOvershoot ==
  /\ \A identifier \in Identifiers :
       \A e \in counterOf(redis.ratelimit, identifier) :
         e.value <= config.requestsPerSecond + Cardinality(Procs) - 1
  /\ \A p \in Procs :
       Finished(p) => (allowedOf(p) <=> local[p].count < config.requestsPerSecond)

\* Two calls have both read limit - 1 and both incremented: both are allowed and
\* the counter stands at limit + 1.
C26_Witness ==
  /\ \A p \in Procs :
       /\ Finished(p) /\ allowedOf(p)
       /\ identifierOf(p) = "anonymous"
       /\ local[p].count = config.requestsPerSecond - 1
  /\ \E e \in counterOf(redis.ratelimit, "anonymous") :
       e.value = config.requestsPerSecond + 1

\* The call of p has searched the API and written the search cache, and ended
\* without an error
searchedAndWrote(p) ==
  /\ Finished(p)
  /\ {"api.search", "search.write"} \subseteq eff[p]
  /\ "catch" \notin eff[p]

\* entry holds response, stamped as cached
stampedCopy(entry, response) ==
  /\ JSONparse(entry.value).cached = TRUE
  /\ \A f \in {"products", "totalResults", "currentPage", "totalPages", "searchTime"} :
       JSONparse(entry.value)[f] = response[f]

\* Both calls searched for the same thing, both missed the cache and both wrote it
C23_BothWrote ==
  /\ \A p \in Procs : searchedAndWrote(p)
  /\ call[1].message = call[2].message

\* The write of call p stores its response, whatever the key held
C23_LastWriterWins(p) ==
  (pc[p] = "sc_set" /\ pc'[p] = "track") =>
    /\ Cardinality(liveEntriesFor(p)') = 1
    /\ \A e \in liveEntriesFor(p)' :
         /\ stampedCopy(e, The(local'[p].response))
         /\ e.exp = now + SEARCH_TTL

\* C23: two processMessage calls with the same search parameters that both miss
\* the empty search cache both issue the external search; each receives a
\* response with cached = false; every write replaces the entry of the key with
\* the writer's response stamped cached = true, so that after both calls the
\* cache holds a single entry for the key, that of the last writer.
C23_ConcurrentMisses ==
  /\ [](C23_BothWrote =>
          /\ \A p \in Procs : valueOf(p).response.cached = FALSE
          /\ Cardinality(liveEntriesFor(1)) = 1
          /\ \A e \in liveEntriesFor(1) :
               \E p \in Procs : stampedCopy(e, valueOf(p).response))
  /\ [][\A p \in Procs : C23_LastWriterWins(p)]_vars

\* Both calls missed and wrote, and the API gave them different product lists:
\* the entry holds the response of one of them.
C23_Witness ==
  /\ C23_BothWrote
  /\ valueOf(1).response.products # valueOf(2).response.products
  /\ \A p \in Procs : valueOf(p).response.cached = FALSE
  /\ \E e \in liveEntriesFor(1) : stampedCopy(e, valueOf(2).response)

\* C24: after any sequence of trackSearchTerm calls popular_searches has at most
\* 1000 members, and the score of every member is the number of calls made for
\* that term, upper and lower case counted together, also for terms tracked
\* while the set was full.
C24_PopularScores ==
  /\ Cardinality(redis.popular) + Residents <= PopularKeep
  /\ \A e \in redis.popular : e.member \in TrackedTerms /\ e.score = calls[e.member]

\* The set is full, a term has been trimmed from it, and a term that was tracked
\* in both cases while the set was full stands at its number of calls.
C24_Witness ==
  /\ Cardinality(redis.popular) + Residents = PopularKeep
  /\ written # {}
  /\ \E e \in redis.popular : e.member = "sofa" /\ e.score = 2 /\ calls["sofa"] = 2
  /\ \E t \in written : calls[t] >= 2

\* The search-cache lookup of call p comes after a rate-limit check that
\* allowed the call.
C25_CheckedFirst(p) ==
  (pc[p] = "sc_get" \/ "search.read" \in eff[p]) =>
    /\ "ratelimit" \in eff[p]
    /\ "denied" \notin eff[p]

\* The step that takes call p to the search-cache lookup is the write of the
\* rate-limit counter: SETEX to 1 for the first request of a window, INCR
\* otherwise.
C25_ConsumesUnit(p) ==
  (pc[p] # "sc_get" /\ pc'[p] = "sc_get") =>
    LET old == counterOf(redis.ratelimit, identifierOf(p))
        new == counterOf(redis'.ratelimit, identifierOf(p))
    IN /\ pc[p] \in {"rl_setex", "rl_incr"}
       /\ new # {}
       /\ \A e \in new :
            e.value = IF pc[p] = "rl_setex" \/ old = {} THEN 1
                      ELSE The({o.value : o \in old}) + 1

\* The step that denies call p ends the call with the rate-limit error,
\* whatever the search cache holds.
C25_DeniedStep(p) ==
  (pc[p] = "rl_ttl" /\ "denied" \in eff'[p]) =>
    /\ pc'[p] = "done"
    /\ outcome'[p] =
         Returned([isProductSearch |-> TRUE,
                   error |-> rateLimitError(
                               now + redisTtl(redis.ratelimit, rateLimitKeyOf(p), now), now)])
    /\ "search.read" \notin eff'[p]

\* C25: in processMessage with real credentials the rate-limit check precedes
\* the search-cache lookup: a request served from the search cache has first
\* written the caller's rate-limit counter (one unit of the window), and a
\* request the rate limiter denies gets the rate-limit error without reading
\* the search cache, even when an unexpired entry for its search exists.
C25_RateLimitBeforeCache ==
  /\ [](\A p \in Procs : C25_CheckedFirst(p))
  /\ [][\A p \in Procs : C25_ConsumesUnit(p) /\ C25_DeniedStep(p)]_vars

\* One call filled the search cache and used the only unit of the window; the
\* next call of the same user for the same search was denied while the entry
\* was unexpired.
C25_Witness ==
  \E p, q \in Procs :
    /\ Finished(q) /\ "search.write" \in eff[q] /\ "catch" \notin eff[q]
    /\ Finished(p) /\ "denied" \in eff[p]
    /\ call[p] = call[q]
    /\ liveEntriesFor(p) # {}
    /\ valueOf(p).error # ApologyError

\* A call answered from the search cache, the counter of its user standing at
\* the two requests made in the window.
C25_HitCounted ==
  \E p \in Procs :
    /\ Finished(p) /\ "search.hit" \in eff[p] /\ "catch" \notin eff[p]
    /\ \E e \in counterOf(redis.ratelimit, identifierOf(p)) : e.value = 2

\* Call q of searchProducts asked for a link for url, got the URL itself back
\* (the request failed, or the response had no link for it), and wrote what it
\* got to the affiliate-link cache.
passedThrough(q, url) ==
  /\ pc[q] = "done"
  /\ "affiliate.write" \in eff[q]
  /\ "affiliate.write.failed" \notin eff[q]
  /\ \E i \in 1..Len(local[q].newAffiliateLinks) :
       /\ local[q].newAffiliateLinks[i].originalUrl = url
       /\ local[q].newAffiliateLinks[i].affiliateUrl = url

\* Call p missed the search cache, the API returned a product with url, and the
\* affiliate-link cache was read.
missWith(p, url) ==
  /\ pc[p] = "done"
  /\ "api.search" \in eff[p]
  /\ "affiliate.read" \in eff[p]
  /\ "affiliate.read.failed" \notin eff[p]
  /\ \E i \in 1..Len(local[p].products) : local[p].products[i].productUrl = url

\* C27: the links link generation returns are written to the affiliate-link
\* cache, pass-through links included: once a search got a pass-through link for
\* a URL u and cached it, every later cache-miss search with u among its
\* products, made less than 86400 seconds afterwards, asks for no link for u and
\* returns the card of u with affiliateUrl = u.
C27_PassThroughCached ==
  \A q, p \in Procs, u \in ProductUrls :
    (/\ q < p
     /\ passedThrough(q, u)
     /\ missWith(p, u)
     /\ local[p].at < local[q].at + AFFILIATE_TTL)
    => /\ \A k \in 1..Len(local[p].linkCalls) :
            \A i \in 1..Len(local[p].linkCalls[k]) : local[p].linkCalls[k][i] # u
       /\ Finished(p) =>
            \A i \in 1..Len(valueOf(p).products) :
              valueOf(p).products[i].originalUrl = u =>
                valueOf(p).products[i].affiliateUrl = u

\* Link generation failed for both products of a search; the search made once
\* the search entry had expired found both URLs in the link cache, asked for no
\* link and returned cards that point to the products' own URLs.
C27_Witness ==
  \E q, p \in Procs :
    /\ q < p
    /\ passedThrough(q, U1) /\ passedThrough(q, U2)
    /\ missWith(p, U1) /\ missWith(p, U2)
    /\ local[p].at = local[q].at + SEARCH_TTL
    /\ local[p].linkCalls = <<>>
    /\ Finished(p)
    /\ Len(valueOf(p).products) = 2
    /\ \A i \in 1..2 : valueOf(p).products[i].affiliateUrl = valueOf(p).products[i].originalUrl

\* C28: every message isProductSearchIntent classifies as a product search has
\* at least one keyword, so intent.keywords.join(' '), the query processMessage
\* searches with, is never the empty string.
C28_SearchHasKeyword ==
  (lastOp.name = "isProductSearchIntent" /\ lastOp.result) =>
    /\ Len(lastOp.intent.keywords) >= 1
    /\ join(lastOp.intent.keywords) # ""

\* The results processMessage returns from its catch block for the message of
\* call p
demoResultsFor(p) ==
  {[isProductSearch |-> TRUE, response |-> DemoResponseOf[call[p].message][t]] :
     t \in DemoSearchTimes}

\* The steps of the rate-limit check, and the steps after the search results
\* have been obtained
RateLimitSteps == {"rl_get", "rl_setex", "rl_ttl", "rl_incr"}

LateSteps == {"sc_set", "track", "track_trim"}

\* The product ids on the cards of a response
cardIds(response) == {response.products[i].id : i \in 1..Len(response.products)}

\* A store operation of call p fails in this step (the catch block is entered
\* and it is not the search call that threw): the call returns the demo
\* response. When the step belongs to the rate-limit check the call has made no
\* external call and no cache read; when it is the search-cache write or the
\* tracking, the call had its results and returns none of them.
C29_FailureStep(p) ==
  ("catch" \notin eff[p] /\ "catch" \in eff'[p] /\ "api.search.failed" \notin eff'[p]) =>
    /\ hasRealCredentials(config)
    /\ pc[p] \in RateLimitSteps \cup {"sc_get", "al_mget", "al_set"} \cup LateSteps
    /\ pc'[p] = "done"
    /\ outcome'[p].status = "returned"
    /\ outcome'[p].value \in demoResultsFor(p)
    /\ redis' = redis
    /\ pc[p] \in RateLimitSteps =>
         eff'[p] \cap (ExternalCalls \cup {"search.read"}) = {}
    /\ pc[p] \in LateSteps =>
         /\ eff[p] \cap {"api.search", "search.hit"} # {}
         /\ \A i \in 1..Len(local[p].products) :
              local[p].products[i].productId \notin cardIds(outcome'[p].value.response)
         /\ \A r \in local[p].response :
              /\ outcome'[p].value.response # r
              /\ cardIds(r) \cap cardIds(outcome'[p].value.response) = {}

\* C29: with real credentials a failure of any store operation on the search
\* path (rate-limit check, search-cache read, link-cache read or write,
\* search-cache write, popularity tracking) makes processMessage return the demo
\* response for the product-search message; a failure in the rate-limit check
\* comes before any external call, and a failure of the search-cache write or
\* of the tracking discards the results the external API gave.
C29_CacheFailureFallsBack ==
  [][\A p \in Procs : C29_FailureStep(p)]_vars

\* One call lost its rate-limit check and made no external call; the other had
\* searched, generated a link and written both caches when the tracking failed;
\* both returned the demo response.
C29_Witness ==
  \E p, q \in Procs :
    /\ Finished(p) /\ Finished(q)
    /\ eff[q] = {"ratelimit", "catch"}
    /\ valueOf(q) \in demoResultsFor(q)
    /\ {"api.search", "api.links", "affiliate.write", "search.write", "popular", "catch"}
         \subseteq eff[p]
    /\ "api.search.failed" \notin eff[p]
    /\ valueOf(p) \in demoResultsFor(p)
    /\ Len(valueOf(p).response.products) = 3

\* Call q of searchProducts missed the cache, the API answered without
\* products, and the response was written to the search cache.
cachedNoProducts(q) ==
  /\ Finished(q)
  /\ ~local[q].hit
  /\ "api.search" \in eff[q]
  /\ "search.write" \in eff[q]
  /\ Len(local[q].products) = 0

\* Call p read the search cache.
readCache(p) ==
  /\ pc[p] = "done"
  /\ "search.read" \in eff[p]
  /\ "search.read.failed" \notin eff[p]

\* C30: a search the API answers with no products (an empty list, or an
\* envelope without the list) is cached like any other: the same search made
\* less than 3600 seconds later is answered from the cache with products = []
\* and cached = true and makes no external call. A search whose external call
\* fails writes nothing to the search cache, and the next search of the same
\* kind calls the API again.
C30_EmptyResultCached ==
  /\ \A q, p \in Procs :
       (q < p /\ cachedNoProducts(q) /\ readCache(p)
        /\ local[p].at < local[q].at + SEARCH_TTL)
       => /\ local[p].hit
          /\ Finished(p)
          /\ valueOf(p).products = <<>>
          /\ valueOf(p).cached = TRUE
          /\ eff[p] \cap ExternalCalls = {}
  /\ (pc[1] = "done" /\ "api.search.failed" \in eff[1]) =>
       /\ outcome[1] = Rejected
       /\ pc[2] = "idle" => redis.search = {}
       /\ readCache(2) => (~local[2].hit /\ "api.search" \in eff[2])

\* A search that found nothing, and the same search with another page size
\* answered from the cache before the entry expired.
C30_Witness ==
  \E q, p \in Procs :
    /\ q < p
    /\ cachedNoProducts(q)
    /\ valueOf(q).cached = FALSE
    /\ readCache(p) /\ Finished(p) /\ local[p].hit
    /\ call[p].pageSize # call[q].pageSize
    /\ valueOf(p).products = <<>>
    /\ valueOf(p).cached = TRUE
    /\ eff[p] = {"search.read", "search.hit"}
====
